---- MODULE Spec2Model ----
(***************************************************************************)
(* gittimes: ranking, diversification and content assembly.                *)
(*                                                                         *)
(*   SpecAlloc  categorizeDiverseForSection (src/src/github.js) applied to *)
(*              score-sorted candidate lists.                              *)
(*   SpecGen    one generateSectionContent call (src/src/xai.js): the      *)
(*              concurrent per-repository generations, the quick-hit       *)
(*              batch, demotion and promotion.                             *)
(*   Spec       one run of publish-edition.js: fetchAllSections followed   *)
(*              by generateAllContent.                                     *)
(*   SpecParse  parseArticle (src/src/xai.js) on backend texts.            *)
(*   SpecQuickHits  parseQuickHits (src/src/xai.js) on backend texts.      *)
(*   SpecScore  scoreRepo (src/src/github.js) on raw signals.              *)
(*   SpecRetry  request and chat under pRetry, per call site.              *)
(***************************************************************************)
EXTENDS Integers, Sequences, FiniteSets, TLC

VARIABLES
  \* ---- SpecAlloc
  scoredRepos,    \* the score-sorted input of categorizeDiverseForSection
  budget,         \* its budget { secondary, quickHits }
  allocation,     \* its return value; {} before the call, {result} after
  \* ---- SpecGen: one generateSectionContent(sectionData, ...) call
  sectionData,    \* its argument { lead, secondary, quickHits }
  secPc,          \* where the call stands
  slotPc,         \* per repository slot (1 = lead, then the secondaries):
                  \*   where its generateArticleWithRetry stands
  prompts,        \* per slot: the prompts of the chat invocations made so far
  responses,      \* per slot: what each finished chat invocation gave
  articles,       \* per slot: the Article the slot resolved with
  active,         \* chat calls the limiter has in flight
  quickHitCalls,  \* batched quick-hit chat invocations made so far
  content,        \* the SectionContent returned; {} before the return
  \* ---- Spec: one run of publish-edition.js
  runPc,          \* where the run stands
  recentRepoNames,\* getRecentRepoNames(outDir, 3): the history penalty set
  sectionIdx,     \* position in SECTION_ORDER of the current loop
  queryIdx,       \* fetchSectionRepos: responses merged so far
  merged,         \* fetchSectionRepos: repos, the merge of the section in
                  \* hand or, until the next one starts, of the one before
  globalSeen,     \* the full names claimed by a lead or secondary
  sections,       \* fetchAllSections' result, by section id
  result,         \* generateAllContent's result.sections, by section id
  frontPagePool,  \* full names the front-page sources that answered returned
  \* ---- SpecParse: parseArticle applied to a backend text
  rawText,        \* the text, as tokens
  parseResult,    \* parseArticle's return value; {} before the call
  \* ---- SpecQuickHits: parseQuickHits applied to a backend text
  quickHitsText,  \* the text, as characters
  quickHitsParsed,\* parseQuickHits' return value; {} before the call
  \* ---- SpecScore: scoreRepo applied to a candidate
  candidate,      \* the repo, its timestamps as days before now
  scoreRecent,    \* options.recentRepoNames
  scoreResult,    \* scoreRepo's return value; {} before the call
  \* ---- SpecRetry: one request(url, token) or chat(...) call under pRetry
  callSite,       \* the function called and whether its caller catches
  retryPc,        \* "attempting", "resolved" or "rejected"
  attemptNumber,  \* attempts made so far
  failures,       \* the status of each failed attempt, in order
  callerOutcome,  \* what the caller ends with; "pending" until then
  \* ---- SpecFetch: fetchAllSections, one fetch call per step
  fetchPc,        \* "frontPage", then "sections"; "rejected" when fetchAndEnrich threw
  claimedNames,   \* globalSeen as the calls see and leave it
  historyNames,   \* options.recentRepoNames as the calls see and leave it
  fetchCount,     \* fetchAndEnrichSection calls made so far
  fetchCall,      \* the last call: kind, candidates, seenBefore, data, requested
  \* ---- SpecEnrich: the enrichment of one section's lead and secondaries
  enrichInput,    \* per repo of [lead, ...secondary]: whether it has _latestRelease
  enrichPc,       \* "called" until Promise.all settles, then "returned"
  taskPc,         \* per repo: its enrichRepo task "queued", "running" or "done"
  requestsInFlight, \* per repo: the requests of its task awaiting a response
  \* ---- SpecLimit: one generateAllContent run, its chat calls under llmLimit
  genPc,          \* the phase of generateAllContent in hand
  genIdx,         \* position of the section in hand in the phase's loop
  callPc,         \* per call the phase awaits together: where it stands
  hasQuickHits,   \* whether the section in hand has quick hits
  articleCounts,  \* per generated section: its lead and secondaries, 0 when isEmpty
  \* ---- SpecPublish: publish calls and the history read back from the manifest
  manifest,       \* editions/manifest.json: the entries, newest first
  published,      \* every publish call so far, oldest first (date and names)
  recentCall      \* the last getRecentRepoNames call and the set it returned

allocVars == <<scoredRepos, budget, allocation>>
genVars == <<sectionData, secPc, slotPc, prompts, responses, articles, active,
             quickHitCalls, content>>

runVars == <<runPc, recentRepoNames, sectionIdx, queryIdx, merged, globalSeen,
             sections, result, frontPagePool>>

parseVars == <<rawText, parseResult>>

quickHitsVars == <<quickHitsText, quickHitsParsed>>

scoreVars == <<candidate, scoreRecent, scoreResult>>

retryVars == <<callSite, retryPc, attemptNumber, failures, callerOutcome>>

fetchVars == <<fetchPc, claimedNames, historyNames, fetchCount, fetchCall>>

enrichVars == <<enrichInput, enrichPc, taskPc, requestsInFlight>>

limitVars == <<genPc, genIdx, callPc, hasQuickHits, articleCounts>>

publishVars == <<manifest, published, recentCall>>

lateVars == <<fetchVars, enrichVars, limitVars, publishVars>>

\* the variables of the specifications above SpecFetch
earlyVars == <<allocVars, genVars, runVars, parseVars, quickHitsVars, scoreVars,
               retryVars>>

\* all but each later specification's own variables
exceptFetchVars == <<earlyVars, enrichVars, limitVars, publishVars>>
exceptEnrichVars == <<earlyVars, fetchVars, limitVars, publishVars>>
exceptLimitVars == <<earlyVars, fetchVars, enrichVars, publishVars>>
exceptPublishVars == <<earlyVars, fetchVars, enrichVars, limitVars>>

pureVars == <<parseVars, quickHitsVars, scoreVars, retryVars, lateVars>>

vars == <<allocVars, genVars, runVars, pureVars>>

----------------------------------------------------------------------------
(* Generic helpers *)

Min(a, b) == IF a < b THEN a ELSE b
Max(a, b) == IF a > b THEN a ELSE b

\* Math.ceil(a / b) for a >= 0, b > 0
CeilDiv(a, b) == (a + b - 1) \div b

\* Array.prototype.slice(0, n)
SliceTo(s, n) == SubSeq(s, 1, Min(n, Len(s)))

\* Array.prototype.slice(k) for a zero-based k
SliceFrom(s, k) == SubSeq(s, k + 1, Len(s))

Range(s) == {s[i] : i \in 1..Len(s)}

\* JavaScript null / undefined, for a string-valued field and for an object
Null == "null"
NullRepo == [null |-> TRUE]

----------------------------------------------------------------------------
(* Bounds *)

\* longest candidate list handed to the allocator
MaxCandidates == 8

\* most secondary repositories / quick hits of the section handed to
\* generateSectionContent
MaxSecondary == 2
MaxQuickHits == 2

\* repositories the repository source knows in a run
MaxRepos == 2

\* tokens of a backend text
MaxTokens == 5

\* characters of a quick-hit backend text
MaxChars == 5

----------------------------------------------------------------------------
(* Diversity allocator: src/src/github.js categorizeDiverseForSection *)

\* scoredRepos.slice(0, 15)
Top15 == 15

\* repo.language || "Unknown"
LangOf(repo) == IF repo.language = Null THEN "Unknown" ELSE repo.language

\* new Set(top15.map(...)).size
DistinctLangs(repos) == Cardinality({LangOf(repos[i]) : i \in 1..Len(repos)})

TotalPromoted(b) == 1 + b.secondary

MaxPerLang_Floor3(scored, totalPromoted) ==
  Max(3, CeilDiv(totalPromoted, DistinctLangs(SliceTo(scored, Top15))))

MaxPerLang_One(scored, totalPromoted) == 1

\* Math.max(2, Math.ceil(totalPromoted / distinctLangs))
MaxPerLang(scored, totalPromoted) ==
  Max(2, CeilDiv(totalPromoted, DistinctLangs(SliceTo(scored, Top15))))

\* langCount[lang] || 0
LangCountOf(langCount, lang) ==
  IF lang \in DOMAIN langCount THEN langCount[lang] ELSE 0

\* the for loop over scoredRepos: lines 171-184
RECURSIVE FirstPass(_, _, _, _, _, _, _)
FirstPass(scored, i, totalPromoted, maxPerLang, promoted, overflow, langCount) ==
  IF i > Len(scored)
  THEN [promoted |-> promoted, overflow |-> overflow]
  ELSE LET repo == scored[i]
           lang == LangOf(repo)
           count == LangCountOf(langCount, lang)
       IN IF Len(promoted) < totalPromoted
          THEN IF count < maxPerLang
               THEN FirstPass(scored, i + 1, totalPromoted, maxPerLang,
                              Append(promoted, repo), overflow,
                              [l \in DOMAIN langCount \cup {lang} |->
                                 IF l = lang THEN count + 1 ELSE langCount[l]])
               ELSE FirstPass(scored, i + 1, totalPromoted, maxPerLang,
                              promoted, Append(overflow, repo), langCount)
          ELSE FirstPass(scored, i + 1, totalPromoted, maxPerLang,
                         promoted, Append(overflow, repo), langCount)

Backfill_None(scored, totalPromoted, pass) == pass

\* "Backfill if diversity filter left fewer than needed": lines 187-200
Backfill(scored, totalPromoted, pass) ==
  IF Len(pass.promoted) < totalPromoted
  THEN LET promoted == pass.promoted \o
                         SliceTo(pass.overflow, totalPromoted - Len(pass.promoted))
           promotedSet == {promoted[i].full_name : i \in 1..Len(promoted)}
       IN [promoted |-> promoted,
           overflow |-> SelectSeq(scored, LAMBDA r : r.full_name \notin promotedSet)]
  ELSE pass

\* lead / secondary / quickHits: lines 202-206
Split(filled, b) ==
  [lead |-> IF Len(filled.promoted) > 0 THEN filled.promoted[1] ELSE NullRepo,
   secondary |-> SliceFrom(filled.promoted, 1),
   quickHits |-> SliceTo(filled.overflow, b.quickHits)]

categorizeDiverseForSection(scored, b) ==
  IF Len(scored) = 0
  THEN [lead |-> NullRepo, secondary |-> <<>>, quickHits |-> <<>>]
  ELSE LET totalPromoted == TotalPromoted(b)
           maxPerLang == MaxPerLang(scored, totalPromoted)
           pass == FirstPass(scored, 1, totalPromoted, maxPerLang, <<>>, <<>>, <<>>)
       IN Split(Backfill(scored, totalPromoted, pass), b)

\* categorizeDiverse: the front page's fixed budget
FrontPageBudget == [secondary |-> 6, quickHits |-> 10]
categorizeDiverse(scored) == categorizeDiverseForSection(scored, FrontPageBudget)

----------------------------------------------------------------------------
(* SpecAlloc: the allocator on every candidate list up to MaxCandidates *)

\* Languages of the candidates, null included. A list uses them in this order
\* of first appearance: the allocator compares languages for equality only.
LangOrder == <<"Rust", "Go", "Python", "JavaScript", Null>>

\* number of languages a list uses
LangsUsed(s) == Cardinality(Range(s))

\* the lists of exactly n languages, in LangOrder's order of first use
RECURSIVE LangLists(_)
LangLists(n) ==
  IF n = 0 THEN {<<>>}
  ELSE {Append(s, LangOrder[k]) :
          <<s, k>> \in {<<t, j>> \in LangLists(n - 1) \X (1..Len(LangOrder)) :
                          j <= LangsUsed(t) + 1}}

\* candidates carry distinct full names (both callers deduplicate by full_name
\* before scoring); the list position is the score rank
Candidates(langs) ==
  [i \in 1..Len(langs) |-> [full_name |-> i, language |-> langs[i]]]

\* section budgets of src/src/sections.js, categorizeDiverse's, and small ones
AllocBudgets ==
  {[secondary |-> s, quickHits |-> q] : s \in {0, 3, 6}, q \in {0, 2, 5}}
    \cup {FrontPageBudget}

\* generateSectionContent not called
GenIdle ==
  /\ sectionData = [lead |-> NullRepo, secondary |-> <<>>, quickHits |-> <<>>]
  /\ secPc = "idle"
  /\ slotPc = <<>>
  /\ prompts = <<>>
  /\ responses = <<>>
  /\ articles = <<>>
  /\ active = 0
  /\ quickHitCalls = 0
  /\ content = {}

\* publish-edition.js not started
RunIdle ==
  /\ runPc = "idle"
  /\ recentRepoNames = {}
  /\ sectionIdx = 0
  /\ queryIdx = 0
  /\ merged = <<>>
  /\ globalSeen = {}
  /\ sections = <<>>
  /\ result = <<>>
  /\ frontPagePool = {}

\* parseArticle not called
ParseIdle ==
  /\ rawText = <<>>
  /\ parseResult = {}

QuickHitsIdle ==
  /\ quickHitsText = <<>>
  /\ quickHitsParsed = {}

ScoreIdle ==
  /\ candidate = NullRepo
  /\ scoreRecent = {}
  /\ scoreResult = {}

RetryIdle ==
  /\ callSite = NullRepo
  /\ retryPc = "idle"
  /\ attemptNumber = 0
  /\ failures = <<>>
  /\ callerOutcome = "pending"

\* no fetch call made: the record of a call holds no candidate and no request
NoFetchCall ==
  [kind |-> "none", candidates |-> <<>>, seenBefore |-> {},
   data |-> [lead |-> NullRepo, secondary |-> <<>>, quickHits |-> <<>>],
   requested |-> {}]

\* fetchAllSections not called
FetchIdle ==
  /\ fetchPc = "idle"
  /\ claimedNames = {}
  /\ historyNames = {}
  /\ fetchCount = 0
  /\ fetchCall = NoFetchCall

\* no enrichment under way
EnrichIdle ==
  /\ enrichInput = <<>>
  /\ enrichPc = "idle"
  /\ taskPc = <<>>
  /\ requestsInFlight = <<>>

\* generateAllContent not called
LimitIdle ==
  /\ genPc = "idle"
  /\ genIdx = 0
  /\ callPc = <<>>
  /\ hasQuickHits = FALSE
  /\ articleCounts = <<>>

\* nothing published, getRecentRepoNames not called
PublishIdle ==
  /\ manifest = <<>>
  /\ published = <<>>
  /\ recentCall = [lookback |-> 0, names |-> {}, made |-> FALSE]

LateIdle == FetchIdle /\ EnrichIdle /\ LimitIdle /\ PublishIdle

PureIdle == ParseIdle /\ QuickHitsIdle /\ ScoreIdle /\ RetryIdle /\ LateIdle

InitAlloc ==
  /\ GenIdle
  /\ RunIdle
  /\ PureIdle
  /\ \E n \in 0..MaxCandidates : \E langs \in LangLists(n) :
       scoredRepos = Candidates(langs)
  /\ budget \in AllocBudgets
  /\ allocation = {}

Categorize ==
  /\ allocation = {}
  /\ allocation' = {categorizeDiverseForSection(scoredRepos, budget)}
  /\ UNCHANGED <<scoredRepos, budget, genVars, runVars, pureVars>>

NextAlloc == Categorize

SpecAlloc == InitAlloc /\ [][NextAlloc]_vars

\* the value categorizeDiverseForSection returned
Allocated == CHOOSE r \in allocation : TRUE

\* lead + secondary of an allocation
PromotedOf(r) == (IF r.lead = NullRepo THEN <<>> ELSE <<r.lead>>) \o r.secondary

CountLang(repos, lang) ==
  Cardinality({i \in 1..Len(repos) : LangOf(repos[i]) = lang})

InputLangs == {LangOf(scoredRepos[i]) : i \in 1..Len(scoredRepos)}

RECURSIVE SumOver(_, _)
SumOver(S, f) ==
  IF S = {} THEN 0
  ELSE LET x == CHOOSE y \in S : TRUE IN f[x] + SumOver(S \ {x}, f)

\* max(2, ceil(7 / number of distinct languages among the top 15))
CapOfSeven == Max(2, CeilDiv(7, DistinctLangs(SliceTo(scoredRepos, 15))))

\* how many candidates the cap admits: at most CapOfSeven per language
CapAdmits ==
  SumOver(InputLangs,
          [l \in InputLangs |-> Min(CountLang(scoredRepos, l), CapOfSeven)])

\* 7 promoted slots, candidates of at least 4 languages, allocator has run
C9_Case ==
  /\ allocation # {}
  /\ budget.secondary = 6
  /\ Cardinality(InputLangs) >= 4

C10_AllocatorSizes ==
  allocation # {} =>
    LET r == Allocated
        n == Len(scoredRepos)
        promoted == Len(PromotedOf(r))
    IN /\ promoted = Min(1 + budget.secondary, n)
       /\ Len(r.quickHits) = Min(budget.quickHits, n - promoted)
       /\ (r.lead = NullRepo) <=> (n = 0)
       /\ promoted < 1 + budget.secondary =>
            Range(scoredRepos) \subseteq Range(PromotedOf(r))

\* C10 witness: every promoted slot is filled although one language is over
\* the cap (backfill acted), and the quick-hit budget cuts the overflow.
C10_Witness ==
  /\ allocation # {}
  /\ Len(PromotedOf(Allocated)) = 1 + budget.secondary
  /\ \E l \in InputLangs :
       CountLang(PromotedOf(Allocated), l) >
         Max(2, CeilDiv(1 + budget.secondary, DistinctLangs(SliceTo(scoredRepos, 15))))
  /\ Len(Allocated.quickHits) = budget.quickHits
  /\ Len(scoredRepos) - Len(PromotedOf(Allocated)) > budget.quickHits

\* max(2, ceil((1 + secondary) / distinct languages among the top 15))
CapOfBudget ==
  Max(2, CeilDiv(1 + budget.secondary, DistinctLangs(SliceTo(scoredRepos, 15))))

\* promoted candidates of q's language ranked before q in the input
PromotedBefore(r, q) ==
  {k \in 1..Len(PromotedOf(r)) :
     /\ PromotedOf(r)[k].full_name < q.full_name
     /\ LangOf(PromotedOf(r)[k]) = LangOf(q)}

\* C11: every promoted candidate precedes every quick-hit candidate in the
\* score-sorted input, unless the quick hit's language had reached the
\* per-language cap among the candidates promoted before it.
C11_PromotedOutrankQuickHits ==
  allocation # {} =>
    LET r == Allocated
    IN \A i \in 1..Len(r.quickHits) : \A k \in 1..Len(PromotedOf(r)) :
         \/ PromotedOf(r)[k].full_name < r.quickHits[i].full_name
         \/ Cardinality(PromotedBefore(r, r.quickHits[i])) >= CapOfBudget

\* C11 witness: a quick hit skipped at the cap outranks a promoted candidate,
\* and another quick hit is outranked by every promoted candidate.
C11_Witness ==
  /\ allocation # {}
  /\ \E i \in 1..Len(Allocated.quickHits) : \E k \in 1..Len(PromotedOf(Allocated)) :
       /\ Allocated.quickHits[i].full_name < PromotedOf(Allocated)[k].full_name
       /\ Cardinality(PromotedBefore(Allocated, Allocated.quickHits[i])) = CapOfBudget
  /\ \E i \in 1..Len(Allocated.quickHits) : \A k \in 1..Len(PromotedOf(Allocated)) :
       PromotedOf(Allocated)[k].full_name < Allocated.quickHits[i].full_name

----------------------------------------------------------------------------
(* Article generation: src/src/xai.js *)

\* Strings are pairs <<what, of>>: a field no marker gave, a piece of backend
\* text t, or text derived from repository n.
NoMatch == <<"", 0>>
Description(n) == <<"description", n>>
ShortName(n) == <<"shortName", n>>

\* an EnrichedRepo (enrichRepo's return value), by full name
Repo(n) == [name |-> n, shortName |-> ShortName(n), description |-> Description(n)]

\* a quick-hit candidate (toQuickHit's return value): no summary yet
QuickHitRepo(n) ==
  [name |-> n, shortName |-> ShortName(n), description |-> Description(n)]

\* Backend text, as what parseArticle's patterns capture from it (trimmed)
\* for the headline, the subheadline, the body and the builder's take
Text(h, sh, b, bt) ==
  [headline |-> h, subheadline |-> sh, body |-> b, buildersTake |-> bt]

\* goodArticle(...) of the tests: all four markers
GoodText ==
  Text(<<"headline", 1>>, <<"subheadline", 1>>, <<"body", 1>>, <<"take", 1>>)
\* badResponse() of the tests: no marker at all
NoMarkerText == Text(NoMatch, NoMatch, NoMatch, NoMatch)
\* a headline but no BODY: marker
HeadlineOnlyText == Text(<<"headline", 2>>, <<"subheadline", 2>>, NoMatch, NoMatch)
\* parseArticle("", repo)
EmptyText == Text(NoMatch, NoMatch, NoMatch, NoMatch)

\* the texts chat may return (never empty: _chat throws on an empty result)
BackendTexts == {GoodText, NoMarkerText, HeadlineOnlyText}

\* `${repo.shortName}: ${repo.description}`.slice(0, 80)
FallbackHeadline(repo) == <<"shortName: description [0,80)", repo.name>>

\* parseArticle(text, repo): lines 109-124
parseArticle(text, repo) ==
  LET headline == text.headline
      body == text.body
      failed == headline = NoMatch \/ body = NoMatch
  IN [headline |-> IF headline # NoMatch THEN headline ELSE FallbackHeadline(repo),
      subheadline |-> IF text.subheadline # NoMatch THEN text.subheadline
                      ELSE repo.description,
      body |-> IF body # NoMatch THEN body ELSE repo.description,
      buildersTake |-> text.buildersTake,
      isFallback |-> failed]

\* { ...parseArticle(raw, repo), repo }
WithRepo(parsed, repo) ==
  [headline |-> parsed.headline, subheadline |-> parsed.subheadline,
   body |-> parsed.body, buildersTake |-> parsed.buildersTake,
   isFallback |-> parsed.isFallback, repo |-> repo]

\* no Article yet
NoArticle == [pending |-> TRUE]

\* The prompt of a chat invocation: promptFn(repo), a function of the prompt
\* builder and the repository alone.
Prompt(promptFn, repo) == [promptFn |-> promptFn, repo |-> repo.name, nudge |-> FALSE]

\* line 144: the first invocation's prompt
FirstPrompt(promptFn, repo) == Prompt(promptFn, repo)

\* line 150: the retry's prompt
RetryPrompt(promptFn, repo) == Prompt(promptFn, repo)

AfterFirstResponse_RetryAlways(raw, repo) ==
  [retry |-> TRUE, article |-> NoArticle]

\* lines 145-149: the first response parsed; retry when it is a fallback
AfterFirstResponse(raw, repo) ==
  LET article == WithRepo(parseArticle(raw, repo), repo)
  IN IF ~article.isFallback
     THEN [retry |-> FALSE, article |-> article]
     ELSE [retry |-> TRUE, article |-> NoArticle]

\* lines 151-152: the retry's response parsed
AfterRetryResponse(retryRaw, repo) == WithRepo(parseArticle(retryRaw, repo), repo)

OnChatError_Requeue(repo) == [settled |-> "queued1", article |-> NoArticle]

OnChatError_Rethrow(repo) == [settled |-> "rejected", article |-> NoArticle]

\* lines 153-156: a raised invocation is caught and gives the fallback
OnChatError(repo) ==
  [settled |-> "resolved", article |-> WithRepo(parseArticle(EmptyText, repo), repo)]

\* pLimit(3): line 229
LlmConcurrency == 3

\* parseQuickHits(text, repos), the text given as the set of ordinals n for
\* which it has a line starting "n."
parseQuickHits(ordinals, repos) ==
  [i \in 1..Len(repos) |->
     [name |-> repos[i].name, shortName |-> repos[i].shortName,
      description |-> repos[i].description,
      summary |-> IF i \in ordinals THEN <<"line", i>> ELSE repos[i].description]]

\* { ...article.repo, summary: article.repo.description }
DemotedQuickHit(article) ==
  [name |-> article.repo.name, shortName |-> article.repo.shortName,
   description |-> article.repo.description,
   summary |-> article.repo.description]

Demote_DropFallbacks(allSecondary) ==
  [goodSecondary |-> SelectSeq(allSecondary, LAMBDA a : ~a.isFallback),
   demotedToQuickHits |-> <<>>]

Demote_KeepAll(allSecondary) ==
  [goodSecondary |-> allSecondary, demotedToQuickHits |-> <<>>]

\* lines 191-200: fallback secondaries leave for the quick hits
Demote(allSecondary) ==
  [goodSecondary |-> SelectSeq(allSecondary, LAMBDA a : ~a.isFallback),
   demotedToQuickHits |->
     LET fallbacks == SelectSeq(allSecondary, LAMBDA a : a.isFallback)
     IN [i \in 1..Len(fallbacks) |-> DemotedQuickHit(fallbacks[i])]]

Promote_Never(leadArticle, d) ==
  [finalLead |-> leadArticle, goodSecondary |-> d.goodSecondary,
   demotedToQuickHits |-> d.demotedToQuickHits]

\* lines 202-207: a fallback lead gives way to the first good secondary
Promote(leadArticle, d) ==
  IF leadArticle.isFallback /\ Len(d.goodSecondary) > 0
  THEN [finalLead |-> Head(d.goodSecondary),
        goodSecondary |-> Tail(d.goodSecondary),
        demotedToQuickHits |->
          Append(d.demotedToQuickHits, DemotedQuickHit(leadArticle))]
  ELSE [finalLead |-> leadArticle, goodSecondary |-> d.goodSecondary,
        demotedToQuickHits |-> d.demotedToQuickHits]

FinishSection_ByPosition(leadArticle, allSecondary, quickHits) ==
  [lead |-> leadArticle,
   secondary |-> Demote(allSecondary).goodSecondary,
   quickHits |-> quickHits \o Demote(allSecondary).demotedToQuickHits,
   isEmpty |-> FALSE]

\* lines 191-216: the SectionContent built from the gathered articles
FinishSection(leadArticle, allSecondary, quickHits) ==
  LET p == Promote(leadArticle, Demote(allSecondary))
  IN [lead |-> p.finalLead,
      secondary |-> p.goodSecondary,
      quickHits |-> quickHits \o p.demotedToQuickHits,
      isEmpty |-> FALSE]

EmptySection_Annotated(data) ==
  [lead |-> NullRepo, secondary |-> <<>>,
   quickHits |-> parseQuickHits({}, data.quickHits), isEmpty |-> TRUE]

EmptySection_NotFlagged(data) ==
  [lead |-> NullRepo, secondary |-> <<>>, quickHits |-> data.quickHits,
   isEmpty |-> FALSE]

\* lines 168-170: no lead, no backend call
EmptySection(data) ==
  [lead |-> NullRepo, secondary |-> <<>>, quickHits |-> data.quickHits,
   isEmpty |-> TRUE]

----------------------------------------------------------------------------
(* SpecGen: one generateSectionContent call, its chat calls interleaved *)

NSlots == IF sectionData.lead = NullRepo THEN 0 ELSE 1 + Len(sectionData.secondary)
Slots == 1..NSlots
SlotRepo(s) == IF s = 1 THEN sectionData.lead ELSE sectionData.secondary[s - 1]
SlotPromptFn(s) == IF s = 1 THEN "leadArticlePrompt" ELSE "secondaryArticlePrompt"

\* a finished chat invocation: the text it returned, or that it raised
Returned(text) == [raised |-> FALSE, text |-> text]
Raised == [raised |-> TRUE, text |-> EmptyText]

\* the section data a fetch can hand over: a lead with up to MaxSecondary
\* secondaries, or no lead and no secondary; names are distinct
SectionInputs ==
  {[lead |-> IF hasLead THEN Repo(1) ELSE NullRepo,
    secondary |-> [i \in 1..nSec |-> Repo(1 + i)],
    quickHits |-> [i \in 1..nQh |-> QuickHitRepo(1 + MaxSecondary + i)]] :
     hasLead \in BOOLEAN, nSec \in 0..MaxSecondary, nQh \in 0..MaxQuickHits}

AllocIdle ==
  /\ scoredRepos = <<>>
  /\ budget = [secondary |-> 0, quickHits |-> 0]
  /\ allocation = {}

InitGen ==
  /\ AllocIdle
  /\ RunIdle
  /\ PureIdle
  /\ sectionData \in {d \in SectionInputs : d.lead = NullRepo => d.secondary = <<>>}
  /\ secPc = "called"
  /\ slotPc = <<>>
  /\ prompts = <<>>
  /\ responses = <<>>
  /\ articles = <<>>
  /\ active = 0
  /\ quickHitCalls = 0
  /\ content = {}

\* lines 167-182: the short-circuit, or the fan-out of one
\* generateArticleWithRetry per slot, each up to its first llmLimit(...)
StartSection ==
  /\ secPc = "called"
  /\ IF sectionData.lead = NullRepo
     THEN /\ secPc' = "returned"
          /\ content' = {EmptySection(sectionData)}
          /\ UNCHANGED <<slotPc, prompts, responses, articles>>
     ELSE /\ secPc' = "gathering"
          /\ slotPc' = [s \in Slots |-> "queued1"]
          /\ prompts' = [s \in Slots |-> <<>>]
          /\ responses' = [s \in Slots |-> <<>>]
          /\ articles' = [s \in Slots |-> NoArticle]
          /\ UNCHANGED content
  /\ UNCHANGED <<sectionData, active, quickHitCalls, allocVars, runVars, pureVars>>

\* the limiter starts a slot's chat(client, model, promptFn(repo), maxTokens)
StartChat(s) ==
  /\ secPc = "gathering"
  /\ slotPc[s] \in {"queued1", "queued2"}
  /\ active < LlmConcurrency
  /\ active' = active + 1
  /\ slotPc' = [slotPc EXCEPT ![s] = IF @ = "queued1" THEN "chat1" ELSE "chat2"]
  /\ prompts' = [prompts EXCEPT ![s] =
                   Append(@, IF slotPc[s] = "queued1"
                             THEN FirstPrompt(SlotPromptFn(s), SlotRepo(s))
                             ELSE RetryPrompt(SlotPromptFn(s), SlotRepo(s)))]
  /\ UNCHANGED <<sectionData, secPc, responses, articles, quickHitCalls,
                 content, allocVars, runVars, pureVars>>

\* chat returns text: lines 144-152
ChatReturns(s, raw) ==
  /\ secPc = "gathering"
  /\ slotPc[s] \in {"chat1", "chat2"}
  /\ active' = active - 1
  /\ responses' = [responses EXCEPT ![s] = Append(@, Returned(raw))]
  /\ IF slotPc[s] = "chat1"
     THEN LET r == AfterFirstResponse(raw, SlotRepo(s))
          IN /\ slotPc' = [slotPc EXCEPT ![s] = IF r.retry THEN "queued2" ELSE "resolved"]
             /\ articles' = [articles EXCEPT ![s] = r.article]
     ELSE /\ slotPc' = [slotPc EXCEPT ![s] = "resolved"]
          /\ articles' = [articles EXCEPT ![s] = AfterRetryResponse(raw, SlotRepo(s))]
  /\ UNCHANGED <<sectionData, secPc, prompts, quickHitCalls, content, allocVars, runVars, pureVars>>

\* chat raises (its own retries exhausted, or aborted): lines 153-156
ChatRaises(s) ==
  /\ secPc = "gathering"
  /\ slotPc[s] \in {"chat1", "chat2"}
  /\ active' = active - 1
  /\ responses' = [responses EXCEPT ![s] = Append(@, Raised)]
  /\ LET r == OnChatError(SlotRepo(s))
     IN /\ slotPc' = [slotPc EXCEPT ![s] = r.settled]
        /\ articles' = [articles EXCEPT ![s] = r.article]
  /\ UNCHANGED <<sectionData, secPc, prompts, quickHitCalls, content, allocVars, runVars, pureVars>>

\* lines 177-189 and, without quick hits, 191-216: Promise.all settles
Gathered ==
  /\ secPc = "gathering"
  /\ \A s \in Slots : slotPc[s] \in {"resolved", "rejected"}
  /\ IF \E s \in Slots : slotPc[s] = "rejected"
     THEN secPc' = "rejected" /\ UNCHANGED content
     ELSE IF Len(sectionData.quickHits) > 0
          THEN secPc' = "quickHitsQueued" /\ UNCHANGED content
          ELSE /\ secPc' = "returned"
               /\ content' = {FinishSection(articles[1], SliceFrom(articles, 1),
                                            sectionData.quickHits)}
  /\ UNCHANGED <<sectionData, slotPc, prompts, responses, articles, active,
                 quickHitCalls, allocVars, runVars, pureVars>>

\* line 187: the limiter starts the batched quick-hit chat
StartQuickHitChat ==
  /\ secPc = "quickHitsQueued"
  /\ active < LlmConcurrency
  /\ active' = active + 1
  /\ quickHitCalls' = quickHitCalls + 1
  /\ secPc' = "quickHitsChat"
  /\ UNCHANGED <<sectionData, slotPc, prompts, responses, articles, content,
                 allocVars, runVars, pureVars>>

\* lines 188-216: the quick-hit text parsed, then demotion and promotion
QuickHitChatReturns(ordinals) ==
  /\ secPc = "quickHitsChat"
  /\ active' = active - 1
  /\ secPc' = "returned"
  /\ content' = {FinishSection(articles[1], SliceFrom(articles, 1),
                               parseQuickHits(ordinals, sectionData.quickHits))}
  /\ UNCHANGED <<sectionData, slotPc, prompts, responses, articles,
                 quickHitCalls, allocVars, runVars, pureVars>>

\* line 187 is outside any try: a raised quick-hit chat rejects the call
QuickHitChatRaises ==
  /\ secPc = "quickHitsChat"
  /\ active' = active - 1
  /\ secPc' = "rejected"
  /\ UNCHANGED <<sectionData, slotPc, prompts, responses, articles,
                 quickHitCalls, content, allocVars, runVars, pureVars>>

NextGen ==
  \/ StartSection
  \/ \E s \in Slots : StartChat(s)
  \/ \E s \in Slots : \E raw \in BackendTexts : ChatReturns(s, raw)
  \/ \E s \in Slots : ChatRaises(s)
  \/ Gathered
  \/ StartQuickHitChat
  \/ \E ordinals \in SUBSET (1..Len(sectionData.quickHits)) :
       QuickHitChatReturns(ordinals)
  \/ QuickHitChatRaises

SpecGen == InitGen /\ [][NextGen]_vars

\* the SectionContent generateSectionContent returned
Content == CHOOSE c \in content : TRUE

\* a response in which headline and body can both be located
Parses(response) ==
  /\ ~response.raised
  /\ response.text.headline # NoMatch
  /\ response.text.body # NoMatch
Unparseable(response) == ~response.raised /\ ~Parses(response)

\* chat invocations slot s has made
Invocations(s) == Len(prompts[s])

C2_NeverRejects ==
  \A s \in DOMAIN slotPc :
    /\ slotPc[s] # "rejected"
    /\ (Len(responses[s]) > 0 /\ responses[s][Len(responses[s])].raised) =>
         slotPc[s] = "resolved"
    /\ slotPc[s] = "resolved" =>
         /\ articles[s] # NoArticle
         /\ articles[s].repo = SlotRepo(s)

\* C2 witness: a slot resolved with its repo after its retry raised, and a
\* slot resolved with its repo from parsed text.
C2_Witness ==
  /\ \E s \in DOMAIN slotPc :
       /\ slotPc[s] = "resolved"
       /\ Len(responses[s]) = 2 /\ responses[s][2].raised
       /\ articles[s].repo = SlotRepo(s)
  /\ \E s \in DOMAIN slotPc :
       /\ slotPc[s] = "resolved"
       /\ ~articles[s].isFallback
       /\ articles[s].repo = SlotRepo(s)

SecondarySlots == DOMAIN slotPc \ {1}

\* C4: the returned secondary holds no fallback article; every secondary
\* that ended as a fallback is out of secondary and in quickHits with its
\* repo description as summary; the others keep their relative order.
C4_Demotion ==
  secPc = "returned" =>
    LET c == Content
    IN /\ \A i \in 1..Len(c.secondary) : ~c.secondary[i].isFallback
       /\ \A s \in SecondarySlots :
            articles[s].isFallback =>
              /\ \A i \in 1..Len(c.secondary) :
                   c.secondary[i].repo.name # SlotRepo(s).name
              /\ \E j \in 1..Len(c.quickHits) :
                   /\ c.quickHits[j].name = SlotRepo(s).name
                   /\ c.quickHits[j].summary = SlotRepo(s).description
       /\ \A s \in SecondarySlots :
            ~articles[s].isFallback =>
              \/ c.lead = articles[s]
              \/ \E i \in 1..Len(c.secondary) : c.secondary[i] = articles[s]
       /\ \A i, j \in 1..Len(c.secondary) :
            i < j => \E s, t \in SecondarySlots :
                       /\ s < t
                       /\ articles[s] = c.secondary[i]
                       /\ articles[t] = c.secondary[j]

\* C4 witness: of two secondaries one parsed and one did not; one article is
\* left in secondary and the failed repo is a quick hit.
C4_Witness ==
  /\ secPc = "returned"
  /\ \E s, t \in SecondarySlots :
       /\ ~articles[s].isFallback
       /\ articles[t].isFallback
       /\ Content.secondary = <<articles[s]>>
       /\ \E j \in 1..Len(Content.quickHits) :
            /\ Content.quickHits[j].name = SlotRepo(t).name
            /\ Content.quickHits[j].summary = SlotRepo(t).description

GoodSecondarySlots == {s \in SecondarySlots : ~articles[s].isFallback}

FirstOf(S) == CHOOSE s \in S : \A t \in S : s <= t

\* C5: a fallback lead with a good secondary is replaced by the first good
\* secondary, which leaves secondary, and the old lead's repo is a quick hit;
\* a fallback lead without good secondary stays; so a fallback final lead
\* implies an empty secondary.
C5_Promotion ==
  (secPc = "returned" /\ sectionData.lead # NullRepo) =>
    LET c == Content
    IN /\ (articles[1].isFallback /\ GoodSecondarySlots # {}) =>
            /\ c.lead = articles[FirstOf(GoodSecondarySlots)]
            /\ \A i \in 1..Len(c.secondary) :
                 c.secondary[i].repo.name # c.lead.repo.name
            /\ \E j \in 1..Len(c.quickHits) :
                 c.quickHits[j].name = sectionData.lead.name
       /\ (articles[1].isFallback /\ GoodSecondarySlots = {}) =>
            c.lead = articles[1]
       /\ c.lead.isFallback => c.secondary = <<>>

\* C5 witness: the lead and the first secondary are fallbacks and the second
\* secondary parsed: it is the final lead, and the old lead is a quick hit.
C5_Witness ==
  /\ secPc = "returned"
  /\ Len(sectionData.secondary) >= 2
  /\ articles[1].isFallback
  /\ articles[2].isFallback
  /\ ~articles[3].isFallback
  /\ Content.lead = articles[3]
  /\ \E j \in 1..Len(Content.quickHits) :
       Content.quickHits[j].name = sectionData.lead.name

\* C16: a section whose input has no lead short-circuits:
\* generateSectionContent returns {lead: null, secondary: [], isEmpty: true}
\* with the input quickHits as they came (no summary added), and no backend
\* invocation is made at any point of the call.
C16_NoLeadShortCircuits ==
  sectionData.lead = NullRepo =>
    /\ quickHitCalls = 0
    /\ active = 0
    /\ \A s \in DOMAIN prompts : prompts[s] = <<>>
    /\ secPc = "returned" =>
         content = {[lead |-> NullRepo, secondary |-> <<>>,
                     quickHits |-> sectionData.quickHits, isEmpty |-> TRUE]}

\* returned without a lead, the input holding quick hits
C16_Witness ==
  /\ secPc = "returned"
  /\ sectionData.lead = NullRepo
  /\ Len(sectionData.quickHits) > 0
  /\ \E c \in content : c.quickHits = sectionData.quickHits /\ c.isEmpty

\* C8 as stated: generateSectionContent never rejects because of a backend
\* failure, the batched quick-hit call included.
C8_SectionNeverRejects == secPc # "rejected"

\* C12 as stated: an article returned with _isFallback = true has the headline
\* "{shortName}: {description}" cut to 80 characters, the repo description as
\* body and an empty buildersTake, whatever text the backend returned.
C12_FallbackIsDeterministic ==
  \A s \in DOMAIN slotPc :
    (slotPc[s] = "resolved" /\ articles[s].isFallback) =>
      /\ articles[s].headline = FallbackHeadline(SlotRepo(s))
      /\ articles[s].body = SlotRepo(s).description
      /\ articles[s].buildersTake = NoMatch

\* the slots in increasing order whose article is a fallback
RECURSIVE FallbackSlotsFrom(_)
FallbackSlotsFrom(s) ==
  IF s > NSlots THEN <<>>
  ELSE (IF articles[s].isFallback THEN <<s>> ELSE <<>>) \o FallbackSlotsFrom(s + 1)

\* the slot whose article the gathered results make the lead, and the slots
\* they leave in secondary
RoutedLeadSlot ==
  IF articles[1].isFallback /\ GoodSecondarySlots # {}
  THEN FirstOf(GoodSecondarySlots) ELSE 1
RoutedSecondarySlots == GoodSecondarySlots \ {RoutedLeadSlot}

\* C25: generateSectionContent takes no promotion or demotion decision (and
\* starts no quick-hit call) while a lead or secondary generation is still
\* unfinished, and the SectionContent it returns is a function of the final
\* per-slot articles alone: lead and secondary are fixed by which slots ended
\* as fallbacks, whatever the order in which the generations completed.
C25_GatherThenRoute ==
  /\ (\E s \in DOMAIN slotPc : slotPc[s] # "resolved") =>
       /\ content = {}
       /\ quickHitCalls = 0
       /\ secPc = "gathering"
  /\ (secPc = "returned" /\ sectionData.lead # NullRepo) =>
       /\ Content.lead = articles[RoutedLeadSlot]
       /\ Len(Content.secondary) = Cardinality(RoutedSecondarySlots)
       /\ \A s \in RoutedSecondarySlots :
            \E i \in 1..Len(Content.secondary) : Content.secondary[i] = articles[s]
       /\ ~Content.isEmpty

\* C25 witness: the lead needed both invocations and ended as a fallback while
\* the last secondary parsed at once and the one before it failed; the
\* returned lead is the last secondary's article.
C25_Witness ==
  /\ secPc = "returned"
  /\ NSlots >= 3
  /\ Invocations(1) = 2 /\ articles[1].isFallback
  /\ articles[NSlots - 1].isFallback
  /\ Invocations(NSlots) = 1 /\ ~articles[NSlots].isFallback
  /\ Content.lead = articles[NSlots]

InputNames ==
  {sectionData.lead.name}
    \cup {sectionData.secondary[i].name : i \in 1..Len(sectionData.secondary)}
    \cup {sectionData.quickHits[i].name : i \in 1..Len(sectionData.quickHits)}

\* the repository names of a returned SectionContent: lead, secondary, quickHits
OutputNames(c) ==
  <<c.lead.repo.name>>
    \o [i \in 1..Len(c.secondary) |-> c.secondary[i].repo.name]
    \o [i \in 1..Len(c.quickHits) |-> c.quickHits[i].name]

\* the names the returned quickHits must list: the input quick hits in order,
\* the fallback secondaries in order, then the lead if it was replaced
ExpectedQuickHitNames ==
  [i \in 1..Len(sectionData.quickHits) |-> sectionData.quickHits[i].name]
    \o [i \in 1..Len(FallbackSlotsFrom(2)) |-> SlotRepo(FallbackSlotsFrom(2)[i]).name]
    \o (IF RoutedLeadSlot # 1 THEN <<sectionData.lead.name>> ELSE <<>>)

\* C29: for a section with a lead, every repository passed in as lead,
\* secondary or quick hit appears exactly once in the returned lead, secondary
\* and quickHits together, and the returned quickHits are the input quick hits
\* in order, then the demoted secondaries, then the demoted lead, with no cut
\* to any budget.
C29_Conservation ==
  (secPc = "returned" /\ sectionData.lead # NullRepo) =>
    LET out == OutputNames(Content)
    IN /\ \A n \in InputNames :
            Cardinality({k \in 1..Len(out) : out[k] = n}) = 1
       /\ Len(out) = Cardinality(InputNames)
       /\ [i \in 1..Len(Content.quickHits) |-> Content.quickHits[i].name]
            = ExpectedQuickHitNames

\* C29 witness: with MaxQuickHits input quick hits, a fallback secondary and
\* the replaced lead are appended after them.
C29_Witness ==
  /\ secPc = "returned"
  /\ sectionData.lead # NullRepo
  /\ Len(sectionData.quickHits) = MaxQuickHits
  /\ RoutedLeadSlot # 1
  /\ \E s \in SecondarySlots : articles[s].isFallback
  /\ Len(Content.quickHits) = MaxQuickHits + 2
  /\ Content.quickHits[Len(Content.quickHits)].name = sectionData.lead.name

\* generateSectionContent for sections of at most MaxFairSlots slots, under a
\* scheduler that runs what is ready: the
\* limiter starts a queued call once fewer than LlmConcurrency are in flight,
\* a started backend invocation returns or raises, and the continuation of
\* the settled Promise.all runs.
MaxFairSlots == 2

InitGenFair == InitGen /\ Len(sectionData.secondary) < MaxFairSlots

SpecGenFair == InitGenFair /\ [][NextGen]_vars /\ WF_vars(NextGen)

\* the call has settled and nothing of it is queued or in flight
Settled ==
  /\ secPc \in {"returned", "rejected"}
  /\ active = 0
  /\ \A s \in DOMAIN slotPc : slotPc[s] = "resolved" /\ articles[s] # NoArticle

\* C28: every slot makes at most two chat invocations and the section at most
\* one quick-hit invocation, every slot ends with an article (parsed or
\* fallback), and generateSectionContent eventually settles for good.
C28_Terminates ==
  /\ [](\A s \in DOMAIN slotPc : Invocations(s) <= 2)
  /\ [](quickHitCalls <= 1)
  /\ <>[]Settled

\* C28 witness: the call returned after every slot of a largest section used
\* both its invocations and the quick-hit call was made.
C28_Witness ==
  /\ Settled
  /\ secPc = "returned"
  /\ NSlots = MaxFairSlots
  /\ \A s \in Slots : Invocations(s) = 2
  /\ quickHitCalls = 1

----------------------------------------------------------------------------
(* Fetching: src/src/github.js, driven by main() of src/publish-edition.js *)

RepoIds == 1..MaxRepos

\* sections.js: budget, the number of query.topics and query.languages
\* (hasQuery FALSE for query: null), isXPulse
SECTIONS ==
  [frontPage |-> [budget |-> [secondary |-> 7, quickHits |-> 10],
                  hasQuery |-> FALSE, topics |-> 0, languages |-> 0,
                  isXPulse |-> FALSE],
   ai        |-> [budget |-> [secondary |-> 3, quickHits |-> 5],
                  hasQuery |-> TRUE, topics |-> 10, languages |-> 1,
                  isXPulse |-> FALSE],
   robotics  |-> [budget |-> [secondary |-> 3, quickHits |-> 5],
                  hasQuery |-> TRUE, topics |-> 9, languages |-> 0,
                  isXPulse |-> FALSE],
   cyber     |-> [budget |-> [secondary |-> 3, quickHits |-> 5],
                  hasQuery |-> TRUE, topics |-> 9, languages |-> 0,
                  isXPulse |-> FALSE],
   systems   |-> [budget |-> [secondary |-> 3, quickHits |-> 5],
                  hasQuery |-> TRUE, topics |-> 0, languages |-> 5,
                  isXPulse |-> FALSE],
   diy       |-> [budget |-> [secondary |-> 3, quickHits |-> 5],
                  hasQuery |-> TRUE, topics |-> 8, languages |-> 0,
                  isXPulse |-> FALSE],
   xPulse    |-> [budget |-> [secondary |-> 0, quickHits |-> 0],
                  hasQuery |-> FALSE, topics |-> 0, languages |-> 0,
                  isXPulse |-> TRUE]]

SECTION_ORDER == <<"frontPage", "ai", "robotics", "cyber", "systems", "diy", "xPulse">>

\* fetchSectionRepos: one query per topic of the first three, one per language
TopicQueries == 3
NumQueries(config) == Min(TopicQueries, config.topics) + config.languages

\* A search item of the repository source, by full name. velocity, recency
\* and engagement are the item's three signal terms of scoreRepo in percent;
\* latestRelease tells whether _latestRelease is attached.
SourceRepo(n) ==
  [full_name |-> n, language |-> LangOrder[((n - 1) % 3) + 1],
   velocity |-> Max(0, 80 - 20 * (n \div 2)), recency |-> 100,
   engagement |-> 0, isOSSInsight |-> FALSE, latestRelease |-> FALSE]

\* a row of the trending aggregator as fetchOSSInsightTrending maps it
OSSInsightRepo(n) == [SourceRepo(n) EXCEPT !.isOSSInsight = TRUE]

\* the history penalty, 0.5, in ten-thousandths
HistoryPenalty == 5000

\* scoreRepo(repo, {recentRepoNames}) in ten-thousandths: lines 129-146
scoreRepo(repo, recent) ==
  LET releaseScore == IF repo.latestRelease THEN 100 ELSE 0 \* published now
      effectiveVelocity == IF repo.isOSSInsight THEN 0 ELSE repo.velocity
      effectiveRecency == IF repo.isOSSInsight THEN 0 ELSE repo.recency
      score == effectiveVelocity * 35 + effectiveRecency * 25
               + releaseScore * 15 + repo.engagement * 10
  IN IF repo.full_name \in recent THEN score - HistoryPenalty ELSE score

\* repos.map(score).sort((a, b) => b._score - a._score): descending, stable
SortByScore(repos, recent) ==
  LET n == Len(repos)
      sc(i) == scoreRepo(repos[i], recent)
      rank(i) == 1 + Cardinality({j \in 1..n : sc(j) > sc(i)})
                   + Cardinality({j \in 1..(i - 1) : sc(j) = sc(i)})
  IN [k \in 1..n |-> repos[CHOOSE i \in 1..n : rank(i) = k]]

FullNames(repos) == {repos[i].full_name : i \in 1..Len(repos)}

\* the dedup loops: an item joins unless its full_name was seen
MergeInto(repos, items) ==
  repos \o SelectSeq(items, LAMBDA r : r.full_name \notin FullNames(repos))

\* what a call to the repository source gives: it failed, or items
Failed == [failed |-> TRUE, items |-> <<>>]
Answered(items) == [failed |-> FALSE, items |-> items]

\* the ids of S in ascending order
Ascending(S) ==
  [k \in 1..Cardinality(S) |->
     CHOOSE n \in S : Cardinality({m \in S : m < n}) = k - 1]

\* the search items, and the aggregator rows, of the ids of S
SourceItems(S) == [k \in 1..Cardinality(S) |-> SourceRepo(Ascending(S)[k])]
OSSInsightItems(S) == [k \in 1..Cardinality(S) |-> OSSInsightRepo(Ascending(S)[k])]

SearchResponses ==
  {Failed} \cup {Answered(SourceItems(S)) : S \in SUBSET RepoIds}
OSSInsightResponses ==
  {Failed} \cup {Answered(OSSInsightItems(S)) : S \in SUBSET RepoIds}

\* request(...).catch(() => ({ items: [] })) and the catch of
\* fetchOSSInsightTrending: a failed call gives no item
ItemsOrNone(response) == IF response.failed THEN <<>> ELSE response.items

\* lines 278-292: the release of each top-15 candidate, null when the request
\* fails; released holds the full names whose request succeeded
WithReleases(top15, released) ==
  [i \in 1..Len(top15) |->
     [top15[i] EXCEPT !.latestRelease = (top15[i].full_name \in released)]]

\* fetchTrending once both searches answered: lines 241-302
fetchTrending(resultA, resultB, ossInsightRepos, released, recent) ==
  LET repos == MergeInto(MergeInto(MergeInto(<<>>, resultA.items), resultB.items),
                         ossInsightRepos)
      preScored == SortByScore(repos, recent)
      top15 == SliceTo(preScored, Top15)
      reScored == SortByScore(WithReleases(top15, released), recent)
  IN categorizeDiverse(reScored)

\* enrichRepo: the readme and release requests are caught on failure (lines
\* 310, 316) and only fill readmeExcerpt, releaseNotes and releaseName, which
\* no later step of the model reads
enrichRepo(repo) == Repo(repo.full_name)
toQuickHit(repo) == QuickHitRepo(repo.full_name)

\* lines 447-462 and 517-526: lead and secondary enriched, quick hits mapped
Enriched(c) ==
  [lead |-> IF c.lead = NullRepo THEN NullRepo ELSE enrichRepo(c.lead),
   secondary |-> IF c.lead = NullRepo THEN <<>>
                 ELSE [i \in 1..Len(c.secondary) |-> enrichRepo(c.secondary[i])],
   quickHits |-> [i \in 1..Len(c.quickHits) |-> toQuickHit(c.quickHits[i])]]

FilterClaimed_None(repos, seen) == repos

\* line 420: repos claimed by earlier sections are filtered out
FilterClaimed(repos, seen) ==
  SelectSeq(repos, LAMBDA r : r.full_name \notin seen)

fetchAndEnrichSection_ClaimsQuickHits(repos, config, seen, recent) ==
  LET filtered == FilterClaimed(repos, seen)
  IN IF Len(filtered) = 0
     THEN [data |-> [lead |-> NullRepo, secondary |-> <<>>, quickHits |-> <<>>],
           claimed |-> {}]
     ELSE LET c == categorizeDiverseForSection(SortByScore(filtered, recent),
                                               config.budget)
          IN [data |-> Enriched(c), claimed |-> FullNames(filtered)]

\* fetchAndEnrichSection after fetchSectionRepos: lines 419-462
fetchAndEnrichSection(repos, config, seen, recent) ==
  LET filtered == FilterClaimed(repos, seen)
  IN IF Len(filtered) = 0
     THEN [data |-> [lead |-> NullRepo, secondary |-> <<>>, quickHits |-> <<>>],
           claimed |-> {}]
     ELSE LET c == categorizeDiverseForSection(SortByScore(filtered, recent),
                                               config.budget)
          IN [data |-> Enriched(c),
              claimed |-> FullNames((IF c.lead = NullRepo THEN <<>> ELSE <<c.lead>>)
                                    \o c.secondary)]

\* lead.name and the secondaries' names of a section
HeadlinerNames(data) ==
  IF data.lead = NullRepo THEN {}
  ELSE {data.lead.name} \cup {data.secondary[i].name : i \in 1..Len(data.secondary)}

----------------------------------------------------------------------------
(* Spec: one run of main(): fetchAllSections, then generateAllContent *)

\* getRecentRepoNames: the names of recent editions, here none or repository 1
RecentRepoNameSets == {{}, {1}}

Init ==
  /\ AllocIdle
  /\ GenIdle
  /\ PureIdle
  /\ runPc = "fetchFrontPage"
  /\ recentRepoNames \in RecentRepoNameSets
  /\ sectionIdx = 1
  /\ queryIdx = 0
  /\ merged = <<>>
  /\ globalSeen = {}
  /\ sections = <<>>
  /\ result = <<>>
  /\ frontPagePool = {}

CurrentId_Reversed == SECTION_ORDER[Len(SECTION_ORDER) + 1 - sectionIdx]

CurrentId == SECTION_ORDER[sectionIdx]

\* the for loops over SECTION_ORDER: the next id, or the next phase
Advance(nextPc) ==
  IF sectionIdx = Len(SECTION_ORDER)
  THEN runPc' = nextPc /\ sectionIdx' = 1
  ELSE sectionIdx' = sectionIdx + 1 /\ UNCHANGED runPc

\* fetchAllSections up to its loop: fetchAndEnrich (fetchTrending, the throw
\* on a missing lead, enrichment), then globalSeen from lead and secondary.
\* Promise.all of line 235 rejects when request(urlA) or request(urlB) does.
FetchFrontPage(resultA, resultB, ossInsight, released) ==
  /\ runPc = "fetchFrontPage"
  /\ frontPagePool' = FullNames(ItemsOrNone(resultA)) \cup FullNames(ItemsOrNone(resultB))
                      \cup FullNames(ItemsOrNone(ossInsight))
  /\ IF resultA.failed \/ resultB.failed
     THEN /\ runPc' = "fetchRejected"
          /\ UNCHANGED <<globalSeen, sections>>
     ELSE LET c == fetchTrending(resultA, resultB, ItemsOrNone(ossInsight),
                                 released, recentRepoNames)
          IN IF c.lead = NullRepo
             THEN /\ runPc' = "fetchRejected"
                  /\ UNCHANGED <<globalSeen, sections>>
             ELSE /\ runPc' = "fetchSections"
                  /\ sections' = ("frontPage" :> Enriched(c))
                  /\ globalSeen' = HeadlinerNames(Enriched(c))
  /\ UNCHANGED <<recentRepoNames, sectionIdx, queryIdx, merged, result,
                 allocVars, genVars, pureVars>>

\* lines 490-493: frontPage and the sections without a query are passed over
SkipSection ==
  /\ runPc = "fetchSections"
  /\ CurrentId = "frontPage" \/ ~SECTIONS[CurrentId].hasQuery
  /\ Advance("generate")
  /\ merged' = <<>>
  /\ UNCHANGED <<recentRepoNames, queryIdx, globalSeen, sections, result,
                 frontPagePool, allocVars, genVars, pureVars>>

\* fetchSectionRepos: the next query of the section answers or fails, and
\* its items join the merge in the order of the queries (lines 391-403)
SectionQueryResponds(response) ==
  /\ runPc = "fetchSections"
  /\ CurrentId # "frontPage" /\ SECTIONS[CurrentId].hasQuery
  /\ queryIdx < NumQueries(SECTIONS[CurrentId])
  /\ queryIdx' = queryIdx + 1
  /\ merged' = MergeInto(IF queryIdx = 0 THEN <<>> ELSE merged, ItemsOrNone(response))
  /\ UNCHANGED <<runPc, recentRepoNames, sectionIdx, globalSeen, sections, result,
                 frontPagePool, allocVars, genVars, pureVars>>

\* fetchAndEnrichSection from line 420 on, and line 495
FetchAndEnrichSection ==
  /\ runPc = "fetchSections"
  /\ CurrentId # "frontPage" /\ SECTIONS[CurrentId].hasQuery
  /\ queryIdx = NumQueries(SECTIONS[CurrentId])
  /\ LET r == fetchAndEnrichSection(merged, SECTIONS[CurrentId], globalSeen,
                                    recentRepoNames)
     IN /\ sections' = (CurrentId :> r.data) @@ sections
        /\ globalSeen' = globalSeen \cup r.claimed
  /\ queryIdx' = 0
  /\ Advance("generate")
  /\ UNCHANGED <<recentRepoNames, merged, result, frontPagePool, allocVars, genVars, pureVars>>

\* the Articles generateArticleWithRetry can resolve with for a repo
ArticleOutcomes(repo) ==
  {AfterFirstResponse(t, repo).article :
     t \in {u \in BackendTexts : ~AfterFirstResponse(u, repo).retry}}
  \cup {AfterRetryResponse(t, repo) : t \in BackendTexts}
  \cup {OnChatError(repo).article}

\* line 238: a section id without fetched data
MissingSection ==
  [lead |-> NullRepo, secondary |-> <<>>, quickHits |-> <<>>, isEmpty |-> TRUE]

\* one turn of the loop of lines 234-244: generateSectionContent for the
\* section, its articles and the quick-hit chat as the backend makes them
GenerateSection ==
  /\ runPc = "generate"
  /\ IF SECTIONS[CurrentId].isXPulse
     THEN Advance("xPulse") /\ UNCHANGED result
     ELSE IF CurrentId \notin DOMAIN sections
     THEN /\ result' = (CurrentId :> MissingSection) @@ result
          /\ Advance("xPulse")
     ELSE LET data == sections[CurrentId]
          IN IF data.lead = NullRepo
             THEN /\ result' = (CurrentId :> EmptySection(data)) @@ result
                  /\ Advance("xPulse")
             ELSE \E leadArticle \in ArticleOutcomes(data.lead) :
                  \E allSecondary \in
                       {a \in [1..Len(data.secondary) ->
                                 UNION {ArticleOutcomes(data.secondary[i]) :
                                          i \in 1..Len(data.secondary)}] :
                          \A i \in 1..Len(data.secondary) :
                            a[i] \in ArticleOutcomes(data.secondary[i])} :
                    IF Len(data.quickHits) = 0
                    THEN /\ result' = (CurrentId :>
                              FinishSection(leadArticle, allSecondary, data.quickHits))
                              @@ result
                         /\ Advance("xPulse")
                    ELSE \/ /\ runPc' = "generateRejected"
                            /\ UNCHANGED <<result, sectionIdx>>
                         \/ \E ordinals \in SUBSET (1..Len(data.quickHits)) :
                              /\ result' = (CurrentId :>
                                   FinishSection(leadArticle, allSecondary,
                                     parseQuickHits(ordinals, data.quickHits)))
                                   @@ result
                              /\ Advance("xPulse")
  /\ UNCHANGED <<recentRepoNames, queryIdx, merged, globalSeen, sections,
                 frontPagePool, allocVars, genVars, pureVars>>

\* the pulse items fetchXPulse resolves with: none (also on failure), or some
PulseItemLists == {<<>>, <<"pulse item">>}

\* lines 265-272
XPulseSection(pulseItems) ==
  [lead |-> NullRepo, secondary |-> <<>>, quickHits |-> <<>>,
   isEmpty |-> Len(pulseItems) = 0, isXPulse |-> TRUE, pulseItems |-> pulseItems]

\* lines 246-285: the sentiment loop, the X Pulse entry, and the return. The
\* xSentiment an article receives is not kept: fetchXSentimentForRepo always
\* resolves (its catch returns the failed default) and no step reads it.
GenerateXPulse(pulseItems) ==
  /\ runPc = "xPulse"
  /\ result' = ("xPulse" :> XPulseSection(pulseItems)) @@ result
  /\ runPc' = "generated"
  /\ UNCHANGED <<recentRepoNames, sectionIdx, queryIdx, merged, globalSeen,
                 sections, frontPagePool, allocVars, genVars, pureVars>>

Next ==
  \/ \E resultA \in SearchResponses, resultB \in SearchResponses,
        ossInsight \in OSSInsightResponses, released \in SUBSET RepoIds :
       FetchFrontPage(resultA, resultB, ossInsight, released)
  \/ SkipSection
  \/ \E response \in SearchResponses : SectionQueryResponds(response)
  \/ FetchAndEnrichSection
  \/ GenerateSection
  \/ \E pulseItems \in PulseItemLists : GenerateXPulse(pulseItems)

Spec == Init /\ [][Next]_vars

----------------------------------------------------------------------------
(* Claims on a run *)

\* the repo names behind lead and secondary of a generated SectionContent
ContentNames(c) ==
  IF c.lead = NullRepo THEN {}
  ELSE {c.lead.repo.name} \cup {c.secondary[i].repo.name : i \in 1..Len(c.secondary)}

C6_IsEmptyIffNoLead ==
  \A id \in DOMAIN result : result[id].isEmpty = (result[id].lead = NullRepo)

\* C6: Every SectionContent of the returned sections map other than xPulse has
\* isEmpty exactly when its lead is null; the xPulse entry always has a null
\* lead and has isEmpty exactly when it has no pulse item; and the returned
\* map has an entry for every id of SECTION_ORDER.
C6_IsEmptyIffNoLeadExceptXPulse ==
  /\ \A id \in DOMAIN result :
       IF SECTIONS[id].isXPulse
       THEN /\ result[id].lead = NullRepo
            /\ result[id].isEmpty = (Len(result[id].pulseItems) = 0)
       ELSE result[id].isEmpty = (result[id].lead = NullRepo)
  /\ runPc = "generated" => DOMAIN result = Range(SECTION_ORDER)

\* a returned map with an empty section, a section with a lead, and an
\* xPulse entry holding pulse items
C6_Witness ==
  /\ runPc = "generated"
  /\ \E id \in DOMAIN result : ~SECTIONS[id].isXPulse /\ result[id].isEmpty
  /\ \E id \in DOMAIN result : ~SECTIONS[id].isXPulse /\ ~result[id].isEmpty
  /\ Len(result["xPulse"].pulseItems) > 0

\* C7 as stated: fetchAllSections rejects only when the front page ends with
\* no lead candidate, a failed source call counting as no data: whenever the
\* run is rejected, the front-page sources that answered returned no
\* repository at all.
C7_RejectsOnlyWithoutLead ==
  runPc = "fetchRejected" => frontPagePool = {}


\* the ids before position k of SECTION_ORDER
EarlierIds(k) == {SECTION_ORDER[i] : i \in 1..(k - 1)}

\* C24: sections are processed one after the other in SECTION_ORDER, the front
\* page first. While a topical section's candidates are queried and filtered,
\* the front page and every earlier queried section have been allocated, no
\* later one has, and their lead and secondary names are in globalSeen;
\* nothing is generated before fetching is over, and when a section's content
\* is generated the content of every earlier section is complete and that of
\* no later section exists.
C24_Sequential ==
  /\ runPc = "fetchFrontPage" =>
       sections = <<>> /\ globalSeen = {} /\ queryIdx = 0 /\ result = <<>>
  /\ runPc = "fetchSections" =>
       /\ DOMAIN sections =
            {"frontPage"} \cup {id \in EarlierIds(sectionIdx) : SECTIONS[id].hasQuery}
       /\ \A id \in DOMAIN sections : HeadlinerNames(sections[id]) \subseteq globalSeen
       /\ result = <<>>
  /\ runPc = "generate" =>
       /\ DOMAIN result = {id \in EarlierIds(sectionIdx) : ~SECTIONS[id].isXPulse}
       /\ DOMAIN sections =
            {id \in DOMAIN SECTIONS : id = "frontPage" \/ SECTIONS[id].hasQuery}

\* C24 witness: the third section's queries are under way, the second section
\* has a lead of its own, and its name and the front page's are claimed.
C24_Witness ==
  /\ runPc = "fetchSections"
  /\ sectionIdx = 3
  /\ queryIdx > 0
  /\ sections[SECTION_ORDER[2]].lead # NullRepo
  /\ sections[SECTION_ORDER[2]].lead.name \in globalSeen
  /\ sections["frontPage"].lead.name \in globalSeen
  /\ sections["frontPage"].lead.name # sections[SECTION_ORDER[2]].lead.name

----------------------------------------------------------------------------
(* Parsing: parseArticle's patterns on a backend text (src/src/xai.js 85-111) *)

\* A text is a sequence of tokens: the four markers, line breaks and words.
\* The tokens of a line are one space apart and no line ends in a space.
Newline == "\n"
Markers == {"HEADLINE:", "SUBHEADLINE:", "BODY:", "BUILDERS_TAKE:"}
Words == {"w1", "w2"}
Tokens == Markers \cup {Newline} \cup Words

\* a captured group, trimmed: the tokens it spans
Captured(tokens) == <<"text", tokens>>

\* \s*: the first position from i on that holds no white space
RECURSIVE SkipSpace(_, _)
SkipSpace(t, i) ==
  IF i <= Len(t) /\ t[i] = Newline THEN SkipSpace(t, i + 1) ELSE i

\* (.+): the position after the last token of the line that position i is in
RECURSIVE LineEnd(_, _)
LineEnd(t, i) ==
  IF i <= Len(t) /\ t[i] # Newline THEN LineEnd(t, i + 1) ELSE i

\* String.prototype.trim on a span that starts with a token: the line breaks
\* at its end go
RECURSIVE TrimEnd(_)
TrimEnd(t) ==
  IF Len(t) > 0 /\ t[Len(t)] = Newline THEN TrimEnd(SubSeq(t, 1, Len(t) - 1)) ELSE t

HeadlineMarkerAt_Unanchored(t, i) == t[i] \in {"HEADLINE:", "SUBHEADLINE:"}

\* /(?:^|\n)\bHEADLINE:/ at token i: the literal HEADLINE: right at the start
\* of the text or of a line; inside SUBHEADLINE: it follows "SUB"
HeadlineMarkerAt(t, i) == t[i] = "HEADLINE:" /\ (i = 1 \/ t[i - 1] = Newline)

\* /SUBHEADLINE:/ at token i
SubheadlineMarkerAt(t, i) == t[i] = "SUBHEADLINE:"

MarkerAt(kind, t, i) ==
  IF kind = "headline" THEN HeadlineMarkerAt(t, i) ELSE SubheadlineMarkerAt(t, i)

\* lastMatch(text, /<marker>\s*(.+)/): the matches are taken from the left
\* without overlap, each to the end of the line its group is on; the group
\* of the last one, trimmed
RECURSIVE LastLineMatch(_, _, _, _)
LastLineMatch(kind, t, i, last) ==
  IF i > Len(t) THEN last
  ELSE IF MarkerAt(kind, t, i) /\ SkipSpace(t, i + 1) <= Len(t)
       THEN LET j == SkipSpace(t, i + 1)
            IN LastLineMatch(kind, t, LineEnd(t, j),
                             Captured(SubSeq(t, j, LineEnd(t, j) - 1)))
       ELSE LastLineMatch(kind, t, i + 1, last)

\* the positions of a marker: [...text.matchAll(/<marker>/g)]
Occurrences(t, marker) == {i \in 1..Len(t) : t[i] = marker}
LastOf(S) == CHOOSE i \in S : \A j \in S : j <= i

\* lines 98-107: from the end of the last BODY:\s* to the last BUILDERS_TAKE:
\* or the end of the text, when that span is not empty
BodySpan(t) ==
  LET bodyMarkers == Occurrences(t, "BODY:")
      btMarkers == Occurrences(t, "BUILDERS_TAKE:")
  IN IF bodyMarkers = {} THEN NoMatch
     ELSE LET lastBodyStart == SkipSpace(t, LastOf(bodyMarkers) + 1)
              lastBtStart == IF btMarkers # {} THEN LastOf(btMarkers) ELSE Len(t) + 1
          IN IF lastBodyStart < lastBtStart
             THEN Captured(TrimEnd(SubSeq(t, lastBodyStart, lastBtStart - 1)))
             ELSE NoMatch

BuildersTakeSpan_FromLast(t) ==
  LET btMarkers == Occurrences(t, "BUILDERS_TAKE:")
  IN IF btMarkers = {} THEN NoMatch
     ELSE LET rest == TrimEnd(SubSeq(t, SkipSpace(t, LastOf(btMarkers) + 1), Len(t)))
          IN IF Len(rest) = 0 THEN NoMatch ELSE Captured(rest)

\* lastMatch(text, /BUILDERS_TAKE:\s*([\s\S]*?)$/): without the m flag $ is
\* the end of the text, so the leftmost match, at the first BUILDERS_TAKE:,
\* runs to the end of the text and is the only match
BuildersTakeSpan(t) ==
  LET btMarkers == Occurrences(t, "BUILDERS_TAKE:")
  IN IF btMarkers = {} THEN NoMatch
     ELSE LET first == CHOOSE i \in btMarkers : \A j \in btMarkers : i <= j
              rest == TrimEnd(SubSeq(t, SkipSpace(t, first + 1), Len(t)))
          IN IF Len(rest) = 0 THEN NoMatch ELSE Captured(rest)

\* lines 93-111: what the patterns capture from a text
Captures(t) ==
  Text(LastLineMatch("headline", t, 1, NoMatch),
       LastLineMatch("subheadline", t, 1, NoMatch),
       BodySpan(t),
       BuildersTakeSpan(t))

----------------------------------------------------------------------------
(* SpecParse: parseArticle on every text of up to MaxTokens tokens *)

RECURSIVE TokenLists(_)
TokenLists(n) ==
  IF n = 0 THEN {<<>>}
  ELSE TokenLists(n - 1) \cup
       {Append(t, k) : t \in {u \in TokenLists(n - 1) : Len(u) = n - 1}, k \in Tokens}

InitParse ==
  /\ AllocIdle
  /\ GenIdle
  /\ RunIdle
  /\ LateIdle
  /\ QuickHitsIdle
  /\ ScoreIdle
  /\ RetryIdle
  /\ rawText \in TokenLists(MaxTokens)
  /\ parseResult = {}

\* parseArticle(text, repo)
ParseArticle ==
  /\ parseResult = {}
  /\ parseResult' = {parseArticle(Captures(rawText), Repo(1))}
  /\ UNCHANGED <<rawText, lateVars, allocVars, genVars, runVars, quickHitsVars, scoreVars,
                 retryVars>>

NextParse == ParseArticle

SpecParse == InitParse /\ [][NextParse]_vars

----------------------------------------------------------------------------
(* Claims about parseArticle's patterns *)

Parsed == CHOOSE r \in parseResult : TRUE
OccursTwice(marker) == Cardinality(Occurrences(rawText, marker)) > 1

\* C13: parseArticle takes the last occurrence of each marker: in a text
\* where BODY: or BUILDERS_TAKE: occurs more than once, the parsed body is
\* the span from the last BODY: to the last BUILDERS_TAKE: and the parsed
\* buildersTake is the content after the last BUILDERS_TAKE:, never content
\* of an earlier occurrence.
C13_LastOccurrence ==
  parseResult # {} =>
    /\ (OccursTwice("BUILDERS_TAKE:") =>
          Parsed.buildersTake = BuildersTakeSpan_FromLast(rawText))
    /\ (OccursTwice("BODY:") /\ BodySpan(rawText) # NoMatch =>
          Parsed.body = BodySpan(rawText))

\* a marker line with a value: the marker, then one word or more
IsLine(line, marker) ==
  /\ Len(line) > 1
  /\ line[1] = marker
  /\ \A i \in 2..Len(line) : line[i] \in Words

\* C15: parseArticle never takes the headline from the "HEADLINE:" inside
\* "SUBHEADLINE:": for a text of one HEADLINE line and one SUBHEADLINE line,
\* in either order, the parsed headline is the HEADLINE line's value and the
\* parsed subheadline is the SUBHEADLINE line's value.
C15_HeadlineNotFromSubheadline ==
  parseResult # {} =>
    \A k \in 2..(Len(rawText) - 1) :
      rawText[k] = Newline =>
        LET first == SubSeq(rawText, 1, k - 1)
            second == SubSeq(rawText, k + 1, Len(rawText))
        IN /\ (IsLine(first, "HEADLINE:") /\ IsLine(second, "SUBHEADLINE:") =>
                 /\ Parsed.headline = Captured(Tail(first))
                 /\ Parsed.subheadline = Captured(Tail(second)))
           /\ (IsLine(first, "SUBHEADLINE:") /\ IsLine(second, "HEADLINE:") =>
                 /\ Parsed.headline = Captured(Tail(second))
                 /\ Parsed.subheadline = Captured(Tail(first)))

\* the text of tp-003: the SUBHEADLINE line comes last, so its "HEADLINE:"
\* is the last one of the text
C15_Witness ==
  /\ parseResult # {}
  /\ rawText = <<"HEADLINE:", "w1", Newline, "SUBHEADLINE:", "w2">>
  /\ Parsed.headline = Captured(<<"w1">>)
  /\ Parsed.subheadline = Captured(<<"w2">>)

----------------------------------------------------------------------------
(* parseQuickHits on a backend text (src/src/xai.js 127-136) *)

\* A quick-hit text is a sequence of characters: digits, the dot, the space,
\* a letter and the line break.
Chars == {"0", "1", ".", " ", "a", "\n"}
DigitChars == {"0", "1", "2", "3", "4", "5", "6", "7", "8", "9"}

\* `${n}`: the decimal digits of n
RECURSIVE Decimal(_)
Decimal(n) ==
  LET digit == <<"0", "1", "2", "3", "4", "5", "6", "7", "8", "9">>[(n % 10) + 1]
  IN IF n < 10 THEN <<digit>> ELSE Append(Decimal(n \div 10), digit)

\* text.split("\n")
RECURSIVE SplitLines(_, _)
SplitLines(t, line) ==
  IF t = <<>> THEN <<line>>
  ELSE IF Head(t) = "\n" THEN <<line>> \o SplitLines(Tail(t), <<>>)
       ELSE SplitLines(Tail(t), Append(line, Head(t)))

\* l.trim(): the spaces at both ends go
RECURSIVE Trim(_)
Trim(l) ==
  IF l = <<>> THEN l
  ELSE IF Head(l) = " " THEN Trim(Tail(l))
       ELSE IF l[Len(l)] = " " THEN Trim(SubSeq(l, 1, Len(l) - 1))
            ELSE l

\* .filter((l) => l.trim())
Lines(t) == SelectSeq(SplitLines(t, <<>>), LAMBDA l : Trim(l) # <<>>)

\* l.startsWith(prefix)
StartsWith(l, prefix) ==
  Len(l) >= Len(prefix) /\ SubSeq(l, 1, Len(prefix)) = prefix

LinePrefix_NoDot(n) == Decimal(n)

\* `${i + 1}.`
LinePrefix(n) == Append(Decimal(n), ".")

\* the length of the run of digits at the start of l: ^\d+
RECURSIVE DigitRun(_)
DigitRun(l) ==
  IF l # <<>> /\ Head(l) \in DigitChars THEN 1 + DigitRun(Tail(l)) ELSE 0

\* line.replace(/^\d+\.\s*/, "").trim()
StripOrdinal(l) ==
  LET d == DigitRun(l)
  IN IF d > 0 /\ Len(l) > d /\ l[d + 1] = "."
     THEN Trim(SubSeq(l, d + 2, Len(l)))
     ELSE Trim(l)

\* lines.find((l) => l.startsWith(`${i + 1}.`)): the first such line, in a
\* set; {} when there is none
FindLine(lines, n) ==
  LET hits == {k \in 1..Len(lines) : StartsWith(lines[k], LinePrefix(n))}
  IN IF hits = {} THEN {}
     ELSE {lines[CHOOSE k \in hits : \A j \in hits : k <= j]}

Summary(chars) == <<"line", chars>>

\* parseQuickHits(text, repos)
parseQuickHitsText(t, repos) ==
  [i \in 1..Len(repos) |->
     LET line == FindLine(Lines(t), i)
     IN [name |-> repos[i].name, shortName |-> repos[i].shortName,
         description |-> repos[i].description,
         summary |-> IF line # {}
                     THEN Summary(StripOrdinal(CHOOSE l \in line : TRUE))
                     ELSE repos[i].description]]

----------------------------------------------------------------------------
(* SpecQuickHits: parseQuickHits on every text of up to MaxChars characters *)

\* the front page's quick-hit budget
FrontPageQuickHits == FrontPageBudget.quickHits

QuickHitCandidates == [i \in 1..FrontPageQuickHits |-> QuickHitRepo(i)]

RECURSIVE CharLists(_)
CharLists(n) ==
  IF n = 0 THEN {<<>>}
  ELSE CharLists(n - 1) \cup
       {Append(t, c) : t \in {u \in CharLists(n - 1) : Len(u) = n - 1}, c \in Chars}

InitQuickHits ==
  /\ AllocIdle
  /\ GenIdle
  /\ RunIdle
  /\ LateIdle
  /\ ParseIdle
  /\ ScoreIdle
  /\ RetryIdle
  /\ quickHitsText \in CharLists(MaxChars)
  /\ quickHitsParsed = {}

\* parseQuickHits(quickHitsRaw, quickHits)
ParseQuickHits ==
  /\ quickHitsParsed = {}
  /\ quickHitsParsed' = {parseQuickHitsText(quickHitsText, QuickHitCandidates)}
  /\ UNCHANGED <<quickHitsText, lateVars, allocVars, genVars, runVars, parseVars, scoreVars,
                 retryVars>>

NextQuickHits == ParseQuickHits

SpecQuickHits == InitQuickHits /\ [][NextQuickHits]_vars

----------------------------------------------------------------------------
(* Claims about parseQuickHits *)

\* the lines of the text whose leading ordinal is n: the digits of n, then
\* the dot, at the start of the line
NumberedLines(n) ==
  {l \in Range(Lines(quickHitsText)) :
     /\ DigitRun(l) = Len(Decimal(n))
     /\ SubSeq(l, 1, DigitRun(l)) = Decimal(n)
     /\ Len(l) > DigitRun(l)
     /\ l[DigitRun(l) + 1] = "."}

\* the text of a numbered line: what follows the ordinal and its dot
LineText(l) == Trim(SubSeq(l, DigitRun(l) + 2, Len(l)))

\* C14: parseQuickHits matches summaries by ordinal: candidate n receives the
\* text of an output line whose leading ordinal is n, and a candidate whose
\* numbered line is missing receives its own description, never the line of
\* another ordinal.
C14_SummariesByOrdinal ==
  \A parsed \in quickHitsParsed :
    \A n \in 1..Len(parsed) :
      IF NumberedLines(n) # {}
      THEN \E l \in NumberedLines(n) : parsed[n].summary = Summary(LineText(l))
      ELSE parsed[n].summary = QuickHitCandidates[n].description

\* the text "10.a": candidate 10 gets the line's text, candidate 1, whose
\* ordinal starts the line of candidate 10, its own description
C14_Witness ==
  /\ quickHitsText = <<"1", "0", ".", "a">>
  /\ \E parsed \in quickHitsParsed :
       /\ parsed[10].summary = Summary(<<"a">>)
       /\ parsed[1].summary = QuickHitCandidates[1].description

----------------------------------------------------------------------------
(* scoreRepo on a candidate's raw signals (src/src/github.js 97-147) *)

\* The terms are whole numbers of 1/TermOne: 21000 makes the 7-day and the
\* 30-day decay exact per day. The score is in units of 1/(100 * TermOne),
\* the weights being 35, 25, 15 and 10.
TermOne == 21000
ScoreOne == 100 * TermOne

\* Math.log1p(x) / 5 in units of 1/TermOne, rounded down, for the values of
\* stars per day the candidates take
Log1pFifth(x) ==
  CASE x = 0 -> 0
    [] x = 1 -> 2911
    [] x = 10 -> 10071
    [] x = 100 -> 19383
    [] x = 1000 -> 29016
    [] x = 1000000 -> 58025
    [] x = 10000000 -> 67696

\* lines 101-105; ages in whole days, a timestamp after now a negative age
velocityScore(repo) ==
  LET ageDays == Max(repo.createdAge, 1)
      rawVelocity == repo.stars \div ageDays
  IN Min(Log1pFifth(rawVelocity), TermOne)

recencyScore_Reversed(repo) ==
  Max(0, (TermOne \div 7) * repo.pushedAge)

\* lines 107-109
recencyScore(repo) == Max(0, TermOne - (TermOne \div 7) * repo.pushedAge)

\* lines 111-122
releaseScore(repo) ==
  IF repo.release.exists
  THEN IF repo.release.dated
       THEN Max(0, TermOne - (TermOne \div 30) * repo.release.age)
       ELSE TermOne \div 2
  ELSE 0

\* lines 124-128
engagementScore(repo) ==
  IF repo.stars > 0
  THEN Min((TermOne * (10 * repo.forks + 3 * repo.issues)) \div (10 * repo.stars),
           TermOne)
  ELSE 0

\* lines 130-146
scoreRepoSignals(repo, recent) ==
  LET effectiveVelocity == IF repo.isOSSInsight THEN 0 ELSE velocityScore(repo)
      effectiveRecency == IF repo.isOSSInsight THEN 0 ELSE recencyScore(repo)
      score == effectiveVelocity * 35 + effectiveRecency * 25
               + releaseScore(repo) * 15 + engagementScore(repo) * 10
  IN IF repo.full_name \in recent THEN score - ScoreOne \div 2 ELSE score

----------------------------------------------------------------------------
(* SpecScore: scoreRepo on every candidate of the signal values below *)

StarValues == {0, 10, 1000, 10000000}
ForkValues == {0, 5, 20}
IssueValues == {0, 10}
\* days between the timestamp and now; negative: the timestamp is after now
CreatedAges == {-1, 1, 10}
PushedAges == {-7, 0, 3, 7, 10}
ReleaseAges == {-30, 0, 15, 30, 40}

Releases ==
  {[exists |-> FALSE, dated |-> FALSE, age |-> 0],
   [exists |-> TRUE, dated |-> FALSE, age |-> 0]}
    \cup {[exists |-> TRUE, dated |-> TRUE, age |-> a] : a \in ReleaseAges}

\* the engagement ratio is a whole number of 1/TermOne
WholeEngagement(stars, forks, issues) ==
  stars > 0 => (TermOne * (10 * forks + 3 * issues)) % (10 * stars) = 0

ScoreCandidates ==
  {[full_name |-> 1, stars |-> st, forks |-> f, issues |-> i, createdAge |-> c,
    pushedAge |-> p, release |-> r, isOSSInsight |-> o] :
     st \in StarValues, f \in ForkValues, i \in IssueValues, c \in CreatedAges,
     p \in PushedAges, r \in Releases, o \in BOOLEAN}

InitScore ==
  /\ AllocIdle
  /\ GenIdle
  /\ RunIdle
  /\ LateIdle
  /\ ParseIdle
  /\ QuickHitsIdle
  /\ RetryIdle
  /\ candidate \in {c \in ScoreCandidates : WholeEngagement(c.stars, c.forks, c.issues)}
  /\ scoreRecent \in RecentRepoNameSets
  /\ scoreResult = {}

\* scoreRepo(repo, { now, recentRepoNames })
ScoreRepo ==
  /\ scoreResult = {}
  /\ scoreResult' = {scoreRepoSignals(candidate, scoreRecent)}
  /\ UNCHANGED <<candidate, scoreRecent, lateVars, allocVars, genVars, runVars, parseVars,
                 quickHitsVars, retryVars>>

NextScore == ScoreRepo

SpecScore == InitScore /\ [][NextScore]_vars

----------------------------------------------------------------------------
(* Claims about scoreRepo *)

InUnit(term) == 0 <= term /\ term <= TermOne

\* C17: score boundedness: for every candidate with stars in [0, 10,000,000]
\* and timestamps before or after now, each of the four terms velocity,
\* recency, release and engagement lies in [0, 1] before weighting, and
\* scoreRepo returns a value in [-0.5, 1.0].
C17_ScoreBounded ==
  \A score \in scoreResult :
    /\ InUnit(velocityScore(candidate))
    /\ InUnit(recencyScore(candidate))
    /\ InUnit(releaseScore(candidate))
    /\ InUnit(engagementScore(candidate))
    /\ 0 - ScoreOne \div 2 <= score
    /\ score <= ScoreOne

\* the score of another candidate under the same options
ScoreOf(repo) == scoreRepoSignals(repo, scoreRecent)

\* The candidates that differ from the scored one in one signal, for the better:
\* created later (more stars per day; ages of a day or more), pushed later,
\* released later, or with more forks or more issues (a higher engagement
\* ratio)
FasterVariants ==
  IF candidate.stars > 0 /\ candidate.createdAge >= 1
  THEN {[candidate EXCEPT !.createdAge = a] :
          a \in {x \in CreatedAges : 1 <= x /\ x < candidate.createdAge}}
  ELSE {}
FresherPushVariants ==
  {[candidate EXCEPT !.pushedAge = a] :
     a \in {x \in PushedAges : x < candidate.pushedAge}}
FresherReleaseVariants ==
  IF candidate.release.dated
  THEN {[candidate EXCEPT !.release.age = a] :
          a \in {x \in ReleaseAges : x < candidate.release.age}}
  ELSE {}
EngagedVariants ==
  IF candidate.stars > 0
  THEN {v \in {[candidate EXCEPT !.forks = f] :
                 f \in {x \in ForkValues : x > candidate.forks}}
              \cup {[candidate EXCEPT !.issues = i] :
                      i \in {x \in IssueValues : x > candidate.issues}} :
          WholeEngagement(v.stars, v.forks, v.issues)}
  ELSE {}

\* C18 as stated: of two candidates that differ in exactly one signal, the
\* one with the higher stars-per-day, the more recent push, the more recent
\* release or the higher engagement ratio gets a strictly higher scoreRepo
\* result, for all values of that signal.
C18_StrictlyMonotone ==
  \A score \in scoreResult :
    \A v \in FasterVariants \cup FresherPushVariants
               \cup FresherReleaseVariants \cup EngagedVariants :
      ScoreOf(v) > score

\* The signal of the scored candidate is not at a clamp: under e^5 - 1 stars
\* per day, pushed less than 7 days ago, released less than 30 days ago,
\* engagement ratio under 1; velocity and recency count for candidates whose
\* timestamps are not synthetic only.
VelocityOpen ==
  ~candidate.isOSSInsight /\ candidate.stars < 148 * candidate.createdAge
RecencyOpen == ~candidate.isOSSInsight /\ candidate.pushedAge < 7
ReleaseOpen == candidate.release.age < 30
EngagementOpen == 10 * candidate.forks + 3 * candidate.issues < 10 * candidate.stars

\* C18, amended: of two candidates that differ in exactly one signal, the one
\* with the higher stars-per-day, the more recent push, the more recent
\* release or the higher engagement ratio never gets a lower scoreRepo
\* result, and gets a strictly higher one when the other's signal is not at
\* a clamp.
C18_MonotoneUpToClamps ==
  \A score \in scoreResult :
    /\ \A v \in FasterVariants : ScoreOf(v) >= score /\ (VelocityOpen => ScoreOf(v) > score)
    /\ \A v \in FresherPushVariants : ScoreOf(v) >= score /\ (RecencyOpen => ScoreOf(v) > score)
    /\ \A v \in FresherReleaseVariants : ScoreOf(v) >= score /\ (ReleaseOpen => ScoreOf(v) > score)
    /\ \A v \in EngagedVariants : ScoreOf(v) >= score /\ (EngagementOpen => ScoreOf(v) > score)

\* a scored candidate pushed 10 days ago: pushed 7 days ago it scores the
\* same, pushed 3 days ago strictly higher
C18_Witness ==
  /\ scoreResult # {}
  /\ ~candidate.isOSSInsight
  /\ candidate.pushedAge = 10
  /\ ScoreOf([candidate EXCEPT !.pushedAge = 7]) \in scoreResult
  /\ \A score \in scoreResult : ScoreOf([candidate EXCEPT !.pushedAge = 3]) > score

----------------------------------------------------------------------------
(* SpecRetry: request (src/src/github.js 41-57) and chat (src/src/xai.js
   67-83), each one pRetry call, seen from each of their call sites *)

\* retries: 3 of request
RequestRetries == 3
\* retries: 2 of chat
ChatRetries == 2

\* pRetry's retries option: the retries after the first attempt
Retries(fn) == IF fn = "request" THEN RequestRetries ELSE ChatRetries

\* How an attempt fails: with an HTTP status, or with none (0: the network,
\* or a body that is no JSON)
FailureStatuses == {0, 400, 499, 500}

\* onFailedAttempt throws AbortError: request on a message "GitHub API 4dd:",
\* which _request gives a status of 400 or above; chat on err.status in
\* 400..499
Aborts(fn, status) == 400 <= status /\ status < 500

\* The call sites: the front page's two searches (github.js 235-236) and the
\* quick-hit batch (xai.js 187) are awaited bare; the release fetch (281-287),
\* enrichRepo's requests (307-316), the section queries (379, 386) and
\* generateArticleWithRetry (xai.js 143-153) catch
CallSites ==
  {[fn |-> "request", site |-> "fetchTrending", caught |-> FALSE],
   [fn |-> "request", site |-> "release", caught |-> TRUE],
   [fn |-> "request", site |-> "enrichRepo", caught |-> TRUE],
   [fn |-> "request", site |-> "fetchSectionRepos", caught |-> TRUE],
   [fn |-> "chat", site |-> "generateArticleWithRetry", caught |-> TRUE],
   [fn |-> "chat", site |-> "quickHits", caught |-> FALSE]}

InitRetry ==
  /\ AllocIdle
  /\ GenIdle
  /\ RunIdle
  /\ LateIdle
  /\ ParseIdle
  /\ QuickHitsIdle
  /\ ScoreIdle
  /\ callSite \in CallSites
  /\ retryPc = "attempting"
  /\ attemptNumber = 0
  /\ failures = <<>>
  /\ callerOutcome = "pending"

\* an attempt resolves: pRetry resolves with its value
AttemptResolves ==
  /\ retryPc = "attempting"
  /\ attemptNumber' = attemptNumber + 1
  /\ retryPc' = "resolved"
  /\ UNCHANGED <<callSite, failures, callerOutcome, lateVars, allocVars, genVars, runVars,
                 parseVars, quickHitsVars, scoreVars>>

\* an attempt rejects: onFailedAttempt runs; pRetry rejects when it throws
\* or when no retry is left, and makes the next attempt otherwise
AttemptFails(status) ==
  /\ retryPc = "attempting"
  /\ attemptNumber' = attemptNumber + 1
  /\ failures' = Append(failures, status)
  /\ LET retriesLeft == Retries(callSite.fn) - attemptNumber
     IN retryPc' = IF Aborts(callSite.fn, status) \/ retriesLeft = 0
                   THEN "rejected"
                   ELSE "attempting"
  /\ UNCHANGED <<callSite, callerOutcome, lateVars, allocVars, genVars, runVars, parseVars,
                 quickHitsVars, scoreVars>>

\* the awaiting caller goes on: with the data, with its catch's substitute,
\* or rejecting itself
CallerSettles ==
  /\ retryPc \in {"resolved", "rejected"}
  /\ callerOutcome = "pending"
  /\ callerOutcome' = IF retryPc = "resolved" THEN "data"
                      ELSE IF callSite.caught THEN "degraded" ELSE "rejected"
  /\ UNCHANGED <<callSite, retryPc, attemptNumber, failures, lateVars, allocVars, genVars,
                 runVars, parseVars, quickHitsVars, scoreVars>>

NextRetry ==
  \/ AttemptResolves
  \/ \E status \in FailureStatuses : AttemptFails(status)
  \/ CallerSettles

SpecRetry == InitRetry /\ [][NextRetry]_vars

----------------------------------------------------------------------------
(* Claims about the retry budgets *)

\* C19: attempt budgets: one logical repository-source request makes at most
\* 3 HTTP attempts in total and one logical backend chat call at most 2
\* attempts in total before the failure surfaces to the caller.
C19_AttemptBudgets ==
  retryPc # "idle" =>
    attemptNumber <= (IF callSite.fn = "request" THEN 3 ELSE 2)

Is4xx(status) == status \in 400..499

\* C20: a 4xx failure aborts retries immediately: after an attempt of request
\* or chat fails with a status in 400..499 no further attempt of that call
\* is made, and the failure surfaces to the caller, which handles it as
\* degraded data.
C20_AbortOn4xx ==
  \A k \in 1..Len(failures) :
    Is4xx(failures[k]) =>
      /\ k = Len(failures)
      /\ attemptNumber = k
      /\ retryPc = "rejected"
      /\ callerOutcome \in {"pending", "degraded"}

----------------------------------------------------------------------------
(* SpecFetch: fetchAllSections call by call, with the requests each call
   issues to the repository source for readme and release content *)

\* the most candidates one call's searches return
MaxFetched == 8
\* the fetchAndEnrichSection calls followed after the front page
MaxSectionCalls == 1

\* a request for the readme or the latest release of a repository
ReadmeRequest(full_name) == <<"readme", full_name>>
ReleaseRequest(full_name) == <<"release", full_name>>

\* fetchTrending lines 241-276: the top 15 of the pre-scored merge
PreScoredTop15(resultA, resultB, ossInsightRepos, recent) ==
  LET repos == MergeInto(MergeInto(MergeInto(<<>>, resultA.items), resultB.items),
                         ossInsightRepos)
  IN SliceTo(SortByScore(repos, recent), Top15)

\* lines 277-292: one releases/latest request per top-15 candidate
Top15ReleaseRequests(top15) ==
  {ReleaseRequest(top15[i].full_name) : i \in 1..Len(top15)}

\* enrichRepo lines 306-317: the readme request, and the release request
\* unless the repo carries _latestRelease
EnrichRequests(repo) ==
  {ReadmeRequest(repo.full_name)}
    \cup (IF repo.latestRelease THEN {} ELSE {ReleaseRequest(repo.full_name)})

\* lines 451-456 and 510-516: enrichRepo for the lead and each secondary
PromotedRequests(c) ==
  IF c.lead = NullRepo THEN {}
  ELSE UNION {EnrichRequests(r) : r \in Range(<<c.lead>> \o c.secondary)}

\* the requests of one fetchAndEnrichSection call after fetchSectionRepos:
\* none on the early returns of lines 422-424 and 445-447
SectionRequests(repos, config, seen, recent) ==
  LET filtered == FilterClaimed(repos, seen)
  IN IF Len(filtered) = 0 THEN {}
     ELSE PromotedRequests(categorizeDiverseForSection(SortByScore(filtered, recent),
                                                       config.budget))

\* the candidate ids a search returns: a run of consecutive ids
CandidateSets == {a..b : a \in 1..MaxFetched, b \in 0..MaxFetched}

\* the top-15 candidates whose release request succeeds: none, the first, all
ReleasedSets == {{}, {1}, 1..MaxFetched}

\* nothing of the specifications above is under way
EarlyIdle ==
  /\ AllocIdle /\ GenIdle /\ RunIdle
  /\ ParseIdle /\ QuickHitsIdle /\ ScoreIdle /\ RetryIdle

InitFetch ==
  /\ EarlyIdle
  /\ EnrichIdle
  /\ LimitIdle
  /\ PublishIdle
  /\ fetchPc = "frontPage"
  /\ claimedNames = {}
  /\ historyNames \in RecentRepoNameSets
  /\ fetchCount = 0
  /\ fetchCall = NoFetchCall

\* fetchAllSections lines 471-487: fetchAndEnrich (fetchTrending, the throw on
\* a missing lead, enrichment), then globalSeen from lead and secondary. The
\* first search fails or returns the candidates with the ids of S; the second
\* search and the aggregator answer with no item.
FetchAndEnrich(S, failed, released) ==
  /\ fetchPc = "frontPage"
  /\ LET resultA == IF failed THEN Failed ELSE Answered(SourceItems(S))
     IN IF resultA.failed
        THEN /\ fetchPc' = "rejected"
             /\ UNCHANGED <<claimedNames, fetchCall>>
        ELSE LET top15 == PreScoredTop15(resultA, Answered(<<>>), <<>>, historyNames)
                 c == fetchTrending(resultA, Answered(<<>>), <<>>, released,
                                    historyNames)
                 call == [kind |-> "frontPage", candidates |-> resultA.items,
                          seenBefore |-> {}, data |-> Enriched(c),
                          requested |-> Top15ReleaseRequests(top15)
                                          \cup PromotedRequests(c)]
             IN IF c.lead = NullRepo
                THEN /\ fetchPc' = "rejected"
                     /\ fetchCall' = [call EXCEPT !.data = NoFetchCall.data]
                     /\ UNCHANGED claimedNames
                ELSE /\ fetchPc' = "sections"
                     /\ fetchCall' = call
                     /\ claimedNames' = HeadlinerNames(Enriched(c))
  /\ UNCHANGED <<historyNames, fetchCount, exceptFetchVars>>

\* one turn of the loop of lines 490-496: fetchAndEnrichSection for the next
\* queried section, its searches having returned the candidates with the ids
\* of S
FetchSection(S) ==
  /\ fetchPc = "sections"
  /\ fetchCount < MaxSectionCalls
  /\ LET repos == SourceItems(S)
         config == SECTIONS[SECTION_ORDER[Min(fetchCount + 2, Len(SECTION_ORDER) - 1)]]
         r == fetchAndEnrichSection(repos, config, claimedNames, historyNames)
     IN /\ claimedNames' = claimedNames \cup r.claimed
        /\ fetchCall' = [kind |-> "section", candidates |-> repos,
                         seenBefore |-> claimedNames, data |-> r.data,
                         requested |-> SectionRequests(repos, config, claimedNames,
                                                       historyNames)]
  /\ fetchCount' = fetchCount + 1
  /\ UNCHANGED <<fetchPc, historyNames, exceptFetchVars>>

NextFetch ==
  \/ \E S \in CandidateSets, failed \in BOOLEAN, released \in ReleasedSets :
       FetchAndEnrich(S, failed, released)
  \/ \E S \in CandidateSets : FetchSection(S)

SpecFetch == InitFetch /\ [][NextFetch]_vars

\* the names of the quick hits of a fetched section
QuickHitNames(data) == {data.quickHits[i].name : i \in 1..Len(data.quickHits)}

\* C22: a fetchAndEnrichSection call leaves globalSeen as the set it found
\* united with the full names of the lead and the secondaries it allocated;
\* no quick-hit name is added by it, no call of the run removes a name, and
\* recentRepoNames is never changed.
C22_ClaimRegistryUpdate ==
  [][/\ claimedNames \subseteq claimedNames'
     /\ historyNames' = historyNames
     /\ fetchCount' # fetchCount =>
          /\ fetchCall'.kind = "section"
          /\ fetchCall'.seenBefore = claimedNames
          /\ claimedNames' = claimedNames \cup HeadlinerNames(fetchCall'.data)
          /\ (claimedNames' \ claimedNames) \cap QuickHitNames(fetchCall'.data) = {}]_vars

\* C22 witness: a section call that claimed its lead and three secondaries on
\* top of the front page's names and left its quick hits unclaimed.
C22_Witness ==
  /\ fetchCall.kind = "section"
  /\ fetchCall.seenBefore # {}
  /\ Len(fetchCall.data.secondary) = 3
  /\ QuickHitNames(fetchCall.data) # {}
  /\ QuickHitNames(fetchCall.data) \cap claimedNames = {}
  /\ claimedNames = fetchCall.seenBefore \cup HeadlinerNames(fetchCall.data)
  /\ Cardinality(claimedNames) = Cardinality(fetchCall.seenBefore) + 4

\* C23: no candidate whose full name was in globalSeen when a topical
\* section's fetch started is lead, secondary or quick hit of that section;
\* when every candidate was in globalSeen the result is {lead: null,
\* secondary: [], quickHits: []} and no readme or release request is issued.
C23_ClaimedAreFilteredOut ==
  fetchCall.kind = "section" =>
    /\ (HeadlinerNames(fetchCall.data) \cup QuickHitNames(fetchCall.data))
         \cap fetchCall.seenBefore = {}
    /\ FullNames(fetchCall.candidates) \subseteq fetchCall.seenBefore =>
         /\ fetchCall.data = [lead |-> NullRepo, secondary |-> <<>>, quickHits |-> <<>>]
         /\ fetchCall.requested = {}

\* C23 witness: every candidate of a section call had been claimed
C23_Witness ==
  /\ fetchCall.kind = "section"
  /\ Len(fetchCall.candidates) >= 2
  /\ FullNames(fetchCall.candidates) \subseteq fetchCall.seenBefore
  /\ fetchCall.data.lead = NullRepo
  /\ fetchCall.requested = {}

\* C27 as stated: no readme request and no release request is ever issued
\* for a candidate that ends as a quick hit of its section, front page
\* included.
C27_NoRequestForQuickHits ==
  \A n \in QuickHitNames(fetchCall.data) :
    /\ ReadmeRequest(n) \notin fetchCall.requested
    /\ ReleaseRequest(n) \notin fetchCall.requested

----------------------------------------------------------------------------
(* SpecEnrich: the enrichment of one section's lead and secondaries, request
   by request: enrichLimit(() => enrichRepo(r, token)) for each of them *)

\* pLimit(5): github.js lines 453 and 512
EnrichConcurrency == 5

\* the most repos (lead + secondaries) one enrichment is followed for
MaxEnrichTasks == 6

EnrichTasks == DOMAIN enrichInput

\* the tasks of the limiter that have started and not finished
RunningTasks == {t \in EnrichTasks : taskPc[t] = "running"}

\* all requests awaiting a response
AllRequestsInFlight == UNION {requestsInFlight[t] : t \in EnrichTasks}

\* which of k repos carry _latestRelease: the first r of them
ReleaseFlags(k) == {[i \in 1..k |-> i <= r] : r \in 0..k}

InitEnrich ==
  /\ EarlyIdle
  /\ FetchIdle
  /\ LimitIdle
  /\ PublishIdle
  /\ \E k \in 1..MaxEnrichTasks : enrichInput \in ReleaseFlags(k)
  /\ enrichPc = "called"
  /\ taskPc = [t \in EnrichTasks |-> "queued"]
  /\ requestsInFlight = [t \in EnrichTasks |-> {}]

\* the limiter starts the oldest queued task once fewer than EnrichConcurrency
\* are running; enrichRepo issues its requests together (Promise.all, lines
\* 306-317)
StartEnrichRepo(t) ==
  /\ enrichPc = "called"
  /\ taskPc[t] = "queued"
  /\ \A u \in EnrichTasks : u < t => taskPc[u] # "queued"
  /\ Cardinality(RunningTasks) < EnrichConcurrency
  /\ taskPc' = [taskPc EXCEPT ![t] = "running"]
  /\ requestsInFlight' =
       [requestsInFlight EXCEPT
          ![t] = EnrichRequests([full_name |-> t, latestRelease |-> enrichInput[t]])]
  /\ UNCHANGED <<enrichInput, enrichPc, exceptEnrichVars>>

\* a request is answered, or fails and is caught as null (lines 310, 316);
\* with its last request the task's enrichRepo returns
RequestSettles(t, request) ==
  /\ taskPc[t] = "running"
  /\ request \in requestsInFlight[t]
  /\ requestsInFlight' = [requestsInFlight EXCEPT ![t] = @ \ {request}]
  /\ taskPc' = [taskPc EXCEPT
                  ![t] = IF requestsInFlight[t] = {request} THEN "done" ELSE @]
  /\ UNCHANGED <<enrichInput, enrichPc, exceptEnrichVars>>

\* Promise.all of lines 451-456 and 510-516 settles
EnrichSettles ==
  /\ enrichPc = "called"
  /\ \A t \in EnrichTasks : taskPc[t] = "done"
  /\ enrichPc' = "returned"
  /\ UNCHANGED <<enrichInput, taskPc, requestsInFlight, exceptEnrichVars>>

NextEnrich ==
  \/ \E t \in EnrichTasks : StartEnrichRepo(t)
  \/ \E t \in EnrichTasks : \E request \in requestsInFlight[t] :
       RequestSettles(t, request)
  \/ EnrichSettles

SpecEnrich == InitEnrich /\ [][NextEnrich]_vars

\* C26 as stated: while the lead and secondaries of a section are enriched,
\* at most 5 readme/release requests are in flight at any moment.
C26_AtMostFiveRequests == Cardinality(AllRequestsInFlight) <= EnrichConcurrency

----------------------------------------------------------------------------
(* SpecLimit: one generateAllContent run (xai.js lines 225-286) as the chat
   calls it hands to llmLimit: article generation with its parse-level retry,
   the quick-hit batch, X sentiment and X Pulse. Of an article only whether it
   parsed is kept. *)

\* the most repository slots (lead + secondaries) of a section
MaxGenSlots == 4
\* the sections with data the run generates
MaxGenSections == 2

\* the call sites of chat
ChatSites == {"article", "articleRetry", "quickHits", "sentiment", "xPulse"}

ThroughLimiter_RetryDirect(site) == site # "articleRetry"

\* whether the site hands its chat call to llmLimit: xai.js lines 144, 150
\* and 187, x-sentiment lines 66 and 132
ThroughLimiter(site) == site \in ChatSites

\* the site of call i of the phase in hand
SiteOf(i) ==
  CASE genPc = "articles" -> IF callPc[i] \in {"queued1", "chat1"}
                             THEN "article" ELSE "articleRetry"
    [] genPc = "quickHits" -> "quickHits"
    [] genPc \in {"sentimentLead", "sentimentSecondary"} -> "sentiment"
    [] OTHER -> "xPulse"

\* the chat calls started and not yet returned or raised
ChatCallsInFlight ==
  Cardinality({i \in DOMAIN callPc : callPc[i] \in {"chat1", "chat2"}})

\* the calls the phase awaits have all settled
AllSettled ==
  \A i \in DOMAIN callPc : callPc[i] \in {"good", "fallback", "done"}

\* lead and secondaries of the section built from the settled articles
\* (lines 191-207): the parsed ones, or the fallback lead alone
ArticlesKept ==
  Max(1, Cardinality({i \in DOMAIN callPc : callPc[i] = "good"}))

InitLimit ==
  /\ EarlyIdle
  /\ FetchIdle
  /\ EnrichIdle
  /\ PublishIdle
  /\ genPc = "nextSection"
  /\ genIdx = 1
  /\ callPc = <<>>
  /\ hasQuickHits = FALSE
  /\ articleCounts = <<>>

\* lines 233-244: the next section; without a lead no call is made (lines
\* 168-170), after the last one the sentiment loop begins
NextSection(slots, quickHits) ==
  /\ genPc = "nextSection"
  /\ IF genIdx > MaxGenSections
     THEN /\ genPc' = "nextSentiment"
          /\ genIdx' = 1
          /\ UNCHANGED <<callPc, hasQuickHits, articleCounts>>
     ELSE IF slots = 0
     THEN /\ articleCounts' = Append(articleCounts, 0)
          /\ genIdx' = genIdx + 1
          /\ UNCHANGED <<genPc, callPc, hasQuickHits>>
     ELSE /\ genPc' = "articles"
          /\ callPc' = [i \in 1..slots |-> "queued1"]
          /\ hasQuickHits' = quickHits
          /\ UNCHANGED <<genIdx, articleCounts>>
  /\ UNCHANGED exceptLimitVars

\* llmLimit starts a queued call: at most LlmConcurrency run at a time
LimiterStarts(i) ==
  /\ callPc[i] \in {"queued1", "queued2"}
  /\ ThroughLimiter(SiteOf(i)) => ChatCallsInFlight < LlmConcurrency
  /\ callPc' = [callPc EXCEPT ![i] = IF @ = "queued1" THEN "chat1" ELSE "chat2"]
  /\ UNCHANGED <<genPc, genIdx, hasQuickHits, articleCounts, exceptLimitVars>>

\* generateArticleWithRetry lines 144-156: a parsed text is the article, an
\* unparsed first text queues the retry, a raised call or an unparsed retry
\* gives the fallback
ArticleChatSettles(i, outcome) ==
  /\ genPc = "articles"
  /\ callPc[i] \in {"chat1", "chat2"}
  /\ callPc' = [callPc EXCEPT
                  ![i] = IF outcome = "parsed" THEN "good"
                         ELSE IF outcome = "unparsed" /\ @ = "chat1" THEN "queued2"
                         ELSE "fallback"]
  /\ UNCHANGED <<genPc, genIdx, hasQuickHits, articleCounts, exceptLimitVars>>

\* lines 177-189: Promise.all settles; the quick-hit batch is queued, or the
\* section is complete
ArticlesGathered ==
  /\ genPc = "articles"
  /\ AllSettled
  /\ articleCounts' = Append(articleCounts, ArticlesKept)
  /\ IF hasQuickHits
     THEN /\ genPc' = "quickHits"
          /\ callPc' = <<"queued1">>
          /\ UNCHANGED genIdx
     ELSE /\ genPc' = "nextSection"
          /\ callPc' = <<>>
          /\ genIdx' = genIdx + 1
  /\ UNCHANGED <<hasQuickHits, exceptLimitVars>>

\* line 187: the quick-hit chat returns, or raises and rejects the run
QuickHitChatSettles(raised) ==
  /\ genPc = "quickHits"
  /\ callPc[1] = "chat1"
  /\ callPc' = <<>>
  /\ IF raised
     THEN genPc' = "rejected" /\ UNCHANGED genIdx
     ELSE genPc' = "nextSection" /\ genIdx' = genIdx + 1
  /\ UNCHANGED <<hasQuickHits, articleCounts, exceptLimitVars>>

\* lines 246-254: the next section of the sentiment loop; an empty one is
\* passed over, otherwise the lead's fetchXSentimentForRepo is awaited; after
\* the last one fetchXPulse is called (line 264)
NextSentiment ==
  /\ genPc = "nextSentiment"
  /\ IF genIdx > Len(articleCounts)
     THEN /\ genPc' = "xPulse"
          /\ callPc' = <<"queued1">>
          /\ UNCHANGED genIdx
     ELSE IF articleCounts[genIdx] = 0
     THEN /\ genIdx' = genIdx + 1
          /\ UNCHANGED <<genPc, callPc>>
     ELSE /\ genPc' = "sentimentLead"
          /\ callPc' = <<"queued1">>
          /\ UNCHANGED genIdx
  /\ UNCHANGED <<hasQuickHits, articleCounts, exceptLimitVars>>

\* fetchXSentimentForRepo and fetchXPulse: the chat call returns or raises
\* (x-sentiment lines 66-73 and 132-138: both are caught)
XChatSettles(i) ==
  /\ genPc \in {"sentimentLead", "sentimentSecondary", "xPulse"}
  /\ callPc[i] = "chat1"
  /\ callPc' = [callPc EXCEPT ![i] = "done"]
  /\ UNCHANGED <<genPc, genIdx, hasQuickHits, articleCounts, exceptLimitVars>>

\* lines 253-258: after the lead's sentiment the secondaries' are fetched
\* together
LeadSentimentDone ==
  /\ genPc = "sentimentLead"
  /\ AllSettled
  /\ genPc' = "sentimentSecondary"
  /\ callPc' = [i \in 1..(articleCounts[genIdx] - 1) |-> "queued1"]
  /\ UNCHANGED <<genIdx, hasQuickHits, articleCounts, exceptLimitVars>>

\* line 256: Promise.all over the secondaries settles
SecondarySentimentDone ==
  /\ genPc = "sentimentSecondary"
  /\ AllSettled
  /\ genPc' = "nextSentiment"
  /\ callPc' = <<>>
  /\ genIdx' = genIdx + 1
  /\ UNCHANGED <<hasQuickHits, articleCounts, exceptLimitVars>>

\* lines 264-285: fetchXPulse has resolved and the run returns
XPulseDone ==
  /\ genPc = "xPulse"
  /\ AllSettled
  /\ genPc' = "generated"
  /\ callPc' = <<>>
  /\ UNCHANGED <<genIdx, hasQuickHits, articleCounts, exceptLimitVars>>

NextLimit ==
  \/ \E slots \in 0..MaxGenSlots, quickHits \in BOOLEAN : NextSection(slots, quickHits)
  \/ \E i \in DOMAIN callPc : LimiterStarts(i)
  \/ \E i \in DOMAIN callPc, outcome \in {"parsed", "unparsed", "raised"} :
       ArticleChatSettles(i, outcome)
  \/ ArticlesGathered
  \/ \E raised \in BOOLEAN : QuickHitChatSettles(raised)
  \/ NextSentiment
  \/ \E i \in DOMAIN callPc : XChatSettles(i)
  \/ LeadSentimentDone
  \/ SecondarySentimentDone
  \/ XPulseDone

SpecLimit == InitLimit /\ [][NextLimit]_vars

\* C21: at every moment of a generateAllContent run at most 3 backend chat
\* calls are in flight, article generation, parse-level retries, quick-hit
\* batches, X sentiment and X Pulse calls counted together.
C21_AtMostThreeChatCalls == ChatCallsInFlight <= 3

\* C21 witness: three chat calls in flight, a parse-level retry among them,
\* while a fourth call of the section waits for the limiter.
C21_Witness ==
  /\ genPc = "articles"
  /\ ChatCallsInFlight = 3
  /\ \E i \in DOMAIN callPc : callPc[i] = "chat2"
  /\ \E i \in DOMAIN callPc : callPc[i] \in {"queued1", "queued2"}

\* ---------------------------------------------------------------------------
\* SpecPublish: publish.js. publish calls on one output directory, each
\* rewriting editions/manifest.json, and getRecentRepoNames reading it back.
\* The HTML, archive page and feeds publish also writes are left out: neither
\* operation reads them back.
\* ---------------------------------------------------------------------------

MaxDays == 3
MaxPublishes == 3
MaxLookback == 2

\* options.date: two instants of every local day
Instants == 1..(2 * MaxDays)

\* toDateStr, lines 11-13: the local calendar day of an instant, its time of
\* day dropped
toDateStr(d) == (d + 1) \div 2

\* the shapes of content offered to publish
ContentShapes == {"legacy", "sections"}

\* the repositories the published editions are about
LeadNames == {"a/one", "c/three"}

SecondaryNameOf(lead) == IF lead = "a/one" THEN "b/two" ELSE "d/four"

QuickHitNameOf(lead) == IF lead = "a/one" THEN "c/three" ELSE "a/one"

\* a section, or a legacy content, without a lead
NoLead == [absent |-> TRUE]

\* a generated article about a repository
ArticleOn(name) == [repo |-> [name |-> name]]

\* the content of one edition: the legacy shape with lead, secondary and quick
\* hits at the top, or two sections, the first with a lead and a nameless
\* quick hit, the second without a lead
ContentOf(shape, lead) ==
  IF shape = "legacy"
    THEN [sections |-> <<>>,
          lead |-> ArticleOn(lead),
          secondary |-> <<ArticleOn(SecondaryNameOf(lead))>>,
          quickHits |-> <<[name |-> QuickHitNameOf(lead)]>>]
    ELSE [sections |->
            <<[lead |-> ArticleOn(lead),
               secondary |-> <<>>,
               quickHits |-> <<[name |-> ""]>>],
              [lead |-> NoLead,
               secondary |-> <<ArticleOn(SecondaryNameOf(lead))>>,
               quickHits |-> <<[name |-> QuickHitNameOf(lead)],
                               [name |-> lead]>>]>>,
          lead |-> NoLead,
          secondary |-> <<>>,
          quickHits |-> <<>>]

\* lines 123-136 and 139-151: the names one section, or a legacy content,
\* pushes: the lead's, the secondaries', the quick hits', empty names skipped
RECURSIVE ArticleNames(_)
ArticleNames(items) ==
  IF items = <<>> THEN <<>>
  ELSE (IF items[1].repo.name # "" THEN <<items[1].repo.name>> ELSE <<>>)
       \o ArticleNames(Tail(items))

RECURSIVE QuickHitRepoNames(_)
QuickHitRepoNames(items) ==
  IF items = <<>> THEN <<>>
  ELSE (IF items[1].name # "" THEN <<items[1].name>> ELSE <<>>)
       \o QuickHitRepoNames(Tail(items))

SectionRepoNames(section) ==
  (IF section.lead # NoLead THEN ArticleNames(<<section.lead>>) ELSE <<>>)
  \o ArticleNames(section.secondary)
  \o QuickHitRepoNames(section.quickHits)

\* lines 118-153: the repos array of the new manifest entry
RECURSIVE CollectSections(_)
CollectSections(list) ==
  IF list = <<>> THEN <<>>
  ELSE SectionRepoNames(list[1]) \o CollectSections(Tail(list))

CollectRepos(edition) ==
  IF edition.sections # <<>>
    THEN CollectSections(edition.sections)
    ELSE SectionRepoNames(edition)

\* the manifest left as it is found
WithoutDate_Keep(entries, dateStr) == entries

\* lines 56-59: findIndex and splice, the first entry of the date removed
WithoutDate(entries, dateStr) ==
  LET hits == {i \in DOMAIN entries : entries[i].date = dateStr}
  IN IF hits = {} THEN entries
     ELSE LET existingIdx == CHOOSE i \in hits : \A j \in hits : i <= j
          IN SubSeq(entries, 1, existingIdx - 1)
             \o SubSeq(entries, existingIdx + 1, Len(entries))

\* the repositories an edition is about: its leads, secondaries and quick hits
EditionNames(edition) ==
  LET parts == IF edition.sections # <<>> THEN Range(edition.sections)
               ELSE {edition}
  IN UNION {   {p.lead.repo.name : x \in (IF p.lead # NoLead THEN {1} ELSE {})}
            \cup {a.repo.name : a \in Range(p.secondary)}
            \cup {q.name : q \in Range(p.quickHits)} : p \in parts} \ {""}

InitPublish ==
  /\ EarlyIdle
  /\ FetchIdle
  /\ EnrichIdle
  /\ LimitIdle
  /\ manifest = <<>>
  /\ published = <<>>
  /\ recentCall = [lookback |-> 0, names |-> {}, made |-> FALSE]

\* publish, lines 48-170: the manifest is read, the entry of the same date
\* removed, the new entry put first and the manifest written. The set an
\* earlier getRecentRepoNames call returned belongs to the run that ends with
\* this publish (publish-edition.js lines 29-58).
Publish(date, shape, lead) ==
  /\ Len(published) < MaxPublishes
  /\ LET edition == ContentOf(shape, lead)
         dateStr == toDateStr(date)
         newEntry == [date |-> dateStr, repos |-> CollectRepos(edition)]
     IN /\ manifest' = <<newEntry>> \o WithoutDate(manifest, dateStr)
        /\ published' = Append(published, [date |-> dateStr,
                                           names |-> EditionNames(edition)])
  /\ recentCall' = [lookback |-> 0, names |-> {}, made |-> FALSE]
  /\ UNCHANGED exceptPublishVars

\* getRecentRepoNames, lines 213-224: the names of the first lookback entries
GetRecentRepoNames(lookback) ==
  /\ LET entries == SliceTo(manifest, lookback)
     IN recentCall' = [lookback |-> lookback,
                       names |-> UNION {Range(entries[i].repos) :
                                          i \in DOMAIN entries},
                       made |-> TRUE]
  /\ UNCHANGED <<manifest, published, exceptPublishVars>>

NextPublish ==
  \/ \E date \in Instants, shape \in ContentShapes, lead \in LeadNames :
       Publish(date, shape, lead)
  \/ \E lookback \in 0..MaxLookback : GetRecentRepoNames(lookback)

SpecPublish == InitPublish /\ [][NextPublish]_vars

\* the publish calls that are the latest of their date, newest first
RECURSIVE NewestFirst(_)
NewestFirst(calls) ==
  IF calls = {} THEN <<>>
  ELSE LET newest == CHOOSE i \in calls : \A j \in calls : j <= i
       IN <<newest>> \o NewestFirst(calls \ {newest})

PublishedEditions ==
  NewestFirst({i \in DOMAIN published :
                 \A j \in DOMAIN published :
                   published[j].date = published[i].date => j <= i})

\* C30: after any sequence of publish calls, republished dates included, the
\* manifest holds one entry per date, the editions in the order of their
\* latest publish with the newest first, and getRecentRepoNames(outDir, N)
\* returns exactly the union of the lead, secondary and quick-hit repository
\* names of the N most recently published editions.
C30_History ==
  LET editions == PublishedEditions
  IN /\ \A i, j \in DOMAIN manifest :
          i # j => manifest[i].date # manifest[j].date
     /\ Len(manifest) = Len(editions)
     /\ \A k \in DOMAIN manifest :
          /\ manifest[k].date = published[editions[k]].date
          /\ Range(manifest[k].repos) = published[editions[k]].names
     /\ recentCall.made =>
          recentCall.names =
            UNION {published[editions[k]].names :
                     k \in 1..Min(recentCall.lookback, Len(editions))}

\* C30 witness: a date was republished after a later date's edition, and a
\* call with N below the number of editions returned names of the newest only.
C30_Witness ==
  /\ Len(published) = MaxPublishes
  /\ Len(manifest) = 2
  /\ published[1].date = published[3].date
  /\ published[1].names # published[3].names
  /\ recentCall.made
  /\ recentCall.lookback = 1
  /\ recentCall.names = published[3].names
  /\ recentCall.names # published[2].names

====
